---- MODULE Spec2Model ----
(***************************************************************************)
(* A model of the transistor-level logic simulator: the value layer        *)
(* (DriveValue, LogicValue, DriveValueAccumulator), the pin/wire fabric    *)
(* (Pin, Wire), the primitives (Constant, TestPin, Transistor) and the     *)
(* simulation driver (tick, settle).                                       *)
(***************************************************************************)
EXTENDS Integers, Sequences, FiniteSets, TLC

VARIABLES
    pins,       \* Seq of Pin: [current_drive, next_drive, wire]
    wires,      \* live Wires by id: [value, pins, drive_value_accumulator]
    devices,    \* Seq of primitive devices, in construction order
    children,   \* the root device's children map: Seq of containers (Seq of nodes)
    fatal,      \* "none", or the panic that halted the program
    mode,       \* which driver call is running: "idle", "tick", "settle"
    phase,      \* position inside tick: "none", "transistors", "pins", "done"
    changed,    \* tick's local `changed`
    ticks,      \* settle's local `ticks`; the value settle returned once it is back
    tickCalls,  \* number of tick calls made by the running / last settle
    history,    \* the driver / helper calls that have returned, with what they returned
                \* (on the bench: the settle call that has only just returned)
    acc,        \* a DriveValueAccumulator used on its own
    accValue    \* the LogicValue its last operation returned

netVars == <<pins, wires, devices, children, fatal>>
drvVars == <<mode, phase, changed, ticks, tickCalls, history>>
accVars == <<acc, accValue>>
vars == <<pins, wires, devices, children, fatal, mode, phase, changed,
          ticks, tickCalls, history, acc, accValue>>

(***************************************************************************)
(* Bounds                                                                  *)
(***************************************************************************)
MaxCount == 2         \* largest accumulator counter explored on its own
MaxSingles == 1       \* TestPin devices added to the bench
MaxPins == 3          \* pins created on their own
MaxSettleTicks == 4   \* longest settle run that is followed to its end
MaxCalls == 3         \* driver / helper calls recorded in one run
MaxLoopCalls == 4     \* calls made on the loop of two NOT gates in one run
WidestAdder == 4      \* widest ripple-carry adder of test_ripple_carry_adder
MaxAdderTicks == 40   \* longest settle run on an adder that is followed to its end
MaxOwnPins == 1       \* pins created on their own on the bench
MaxBenchCalls == 4    \* calls made on the bench in one run

(***************************************************************************)
(* Value layer                                                             *)
(***************************************************************************)
Strong(b) == [drive |-> "Strong", value |-> b]
Weak(b) == [drive |-> "Weak", value |-> b]
DriveHighImpedance == [drive |-> "HighImpedance"]
DriveError == [drive |-> "Error"]

Driven(b) == [logic |-> "Driven", value |-> b]
LogicHighImpedance == [logic |-> "HighImpedance"]
LogicError == [logic |-> "Error"]

DRIVE_VALUES ==
    {Strong(TRUE), Strong(FALSE), Weak(TRUE), Weak(FALSE), DriveHighImpedance, DriveError}

LogicValue == {Driven(TRUE), Driven(FALSE), LogicHighImpedance, LogicError}

DriveFromLogic_weak(logic_value) ==
    IF logic_value.logic = "Driven" THEN Weak(logic_value.value)
    ELSE IF logic_value.logic = "HighImpedance" THEN DriveHighImpedance
    ELSE DriveError

\* impl From<LogicValue> for DriveValue
DriveFromLogic(logic_value) ==
    IF logic_value.logic = "Driven" THEN Strong(logic_value.value)
    ELSE IF logic_value.logic = "HighImpedance" THEN DriveHighImpedance
    ELSE DriveError

LogicFromDrive_error_floats(drive_value) ==
    IF drive_value.drive \in {"Strong", "Weak"} THEN Driven(drive_value.value)
    ELSE LogicHighImpedance

\* impl From<DriveValue> for LogicValue
LogicFromDrive(drive_value) ==
    IF drive_value.drive \in {"Strong", "Weak"} THEN Driven(drive_value.value)
    ELSE IF drive_value.drive = "HighImpedance" THEN LogicHighImpedance
    ELSE LogicError

None == <<>>
Some(v) == <<v>>

(***************************************************************************)
(* DriveValueAccumulator                                                   *)
(***************************************************************************)
AccNew ==
    [strong_true |-> 0, strong_false |-> 0, weak_true |-> 0, weak_false |-> 0, error |-> 0]

\* The counter a DriveValue is counted in ("none" for HighImpedance).
CounterOf(d) ==
    IF d = Strong(TRUE) THEN "strong_true"
    ELSE IF d = Strong(FALSE) THEN "strong_false"
    ELSE IF d = Weak(TRUE) THEN "weak_true"
    ELSE IF d = Weak(FALSE) THEN "weak_false"
    ELSE IF d = DriveError THEN "error"
    ELSE "none"

get_value_weak_first(a) ==
    IF a.error # 0 \/ (a.strong_true # 0 /\ a.strong_false # 0)
                   \/ (a.weak_true # 0 /\ a.weak_false # 0) THEN LogicError
    ELSE IF a.weak_true # 0 THEN Driven(TRUE)
    ELSE IF a.weak_false # 0 THEN Driven(FALSE)
    ELSE IF a.strong_true # 0 THEN Driven(TRUE)
    ELSE IF a.strong_false # 0 THEN Driven(FALSE)
    ELSE LogicHighImpedance

get_value(a) ==
    LET strong_short == a.strong_true # 0 /\ a.strong_false # 0
        weak_short == a.weak_true # 0 /\ a.weak_false # 0
    IN  IF a.error # 0 \/ strong_short \/ weak_short THEN LogicError
        ELSE IF a.strong_true # 0 THEN Driven(TRUE)
        ELSE IF a.strong_false # 0 THEN Driven(FALSE)
        ELSE IF a.weak_true # 0 THEN Driven(TRUE)
        ELSE IF a.weak_false # 0 THEN Driven(FALSE)
        ELSE LogicHighImpedance

\* strict_sub(1) on a zero counter panics.
AccUpdatePanics_error_saturates(a, before) ==
    CounterOf(before) \notin {"none", "error"} /\ a[CounterOf(before)] = 0

AccUpdatePanics(a, before) ==
    CounterOf(before) # "none" /\ a[CounterOf(before)] = 0

\* The counters after update(before, after); defined when it does not panic.
AccUpdate(a, before, after) ==
    LET a1 == IF CounterOf(before) = "none" THEN a
              ELSE [a EXCEPT ![CounterOf(before)] = @ - 1]
    IN  IF CounterOf(after) = "none" THEN a1
        ELSE [a1 EXCEPT ![CounterOf(after)] = @ + 1]

\* The counters after add(other).
AccAdd(a, other) ==
    [strong_true |-> a.strong_true + other.strong_true,
     strong_false |-> a.strong_false + other.strong_false,
     weak_true |-> a.weak_true + other.weak_true,
     weak_false |-> a.weak_false + other.weak_false,
     error |-> a.error + other.error]

(***************************************************************************)
(* Wire and Pin.  A net is the record [pins, wires, devices, fatal]; the   *)
(* operations below take a net and give the net after the call.  A wire is *)
(* identified by the pin it was created for; a wire no pin refers to any   *)
(* more is dropped.                                                        *)
(***************************************************************************)
\* F applied to the value of e (e is evaluated once).
Let(e, F(_)) == CHOOSE r \in {F(v) : v \in {e}} : TRUE

Range(s) == {s[i] : i \in DOMAIN s}

Halted(n) == n.fatal # "none"

\* Wire::new
WireNew == [value |-> LogicHighImpedance, pins |-> <<>>, drive_value_accumulator |-> AccNew]

\* Wire::set_initial_pin on a wire without pins.
WireSetInitialPin_uncounted(w, pin, drive) ==
    [value |-> LogicFromDrive(drive), pins |-> Append(w.pins, pin),
     drive_value_accumulator |-> w.drive_value_accumulator]

WireSetInitialPin(w, pin, drive) ==
    Let(AccUpdate(w.drive_value_accumulator, DriveHighImpedance, drive), LAMBDA a :
        [value |-> get_value(a), pins |-> Append(w.pins, pin), drive_value_accumulator |-> a])

\* Wire::set_initial_pin(pin) on wire w of net n0.
set_initial_pin_again(n0, w, pin) ==
    Let(n0, LAMBDA n :
        IF Halted(n) THEN n
        ELSE [n EXCEPT !.wires[w] = WireSetInitialPin(@, pin, n.pins[pin].current_drive)])

set_initial_pin(n0, w, pin) ==
    Let(n0, LAMBDA n :
        IF Halted(n) THEN n
        ELSE IF n.wires[w].pins # <<>>
        THEN [n EXCEPT !.fatal = "Wire is already associated with a Pin."]
        ELSE [n EXCEPT !.wires[w] = WireSetInitialPin(@, pin, n.pins[pin].current_drive)])

WireUpdatePin_stale_value(w, before, after) ==
    [w EXCEPT !.drive_value_accumulator = AccUpdate(w.drive_value_accumulator, before, after)]

\* Wire::update_pin, when the accumulator does not panic.
WireUpdatePin(w, before, after) ==
    Let(AccUpdate(w.drive_value_accumulator, before, after), LAMBDA a :
        [w EXCEPT !.value = get_value(a), !.drive_value_accumulator = a])

\* Wire::get_all_pins
get_all_pins(w) == w.pins

\* The wires some pin still owns (Rc): the others have been dropped.
OwnedWires(ps) == {ps[p].wire : p \in DOMAIN ps}

\* The pins of net n once every pin listed on wire_2 has had set_wire(wire_1).
Redirected_none(n, wire_1, wire_2) == n.pins

Redirected(n, wire_1, wire_2) ==
    [p \in DOMAIN n.pins |->
        IF p \in Range(n.wires[wire_2].pins) THEN [n.pins[p] EXCEPT !.wire = wire_1]
        ELSE n.pins[p]]

\* The wire wire_1 of net n once wire_2's pins and accumulator have been moved to it.
Merged_no_add(n, wire_1, wire_2) ==
    [n.wires[wire_1] EXCEPT !.pins = @ \o n.wires[wire_2].pins]

Merged_no_append(n, wire_1, wire_2) ==
    Let(AccAdd(n.wires[wire_1].drive_value_accumulator,
               n.wires[wire_2].drive_value_accumulator), LAMBDA a :
        [value |-> get_value(a),
         pins |-> n.wires[wire_1].pins,
         drive_value_accumulator |-> a])

Merged_prepend(n, wire_1, wire_2) ==
    Let(AccAdd(n.wires[wire_1].drive_value_accumulator,
               n.wires[wire_2].drive_value_accumulator), LAMBDA a :
        [value |-> get_value(a),
         pins |-> n.wires[wire_2].pins \o n.wires[wire_1].pins,
         drive_value_accumulator |-> a])

Merged(n, wire_1, wire_2) ==
    Let(AccAdd(n.wires[wire_1].drive_value_accumulator,
               n.wires[wire_2].drive_value_accumulator), LAMBDA a :
        [value |-> get_value(a),
         pins |-> n.wires[wire_1].pins \o n.wires[wire_2].pins,
         drive_value_accumulator |-> a])

\* Wire::connect
WireConnect_always_merges(n0, wire_1, wire_2) ==
    Let(n0, LAMBDA n :
        Let(Redirected(n, wire_1, wire_2), LAMBDA ps :
        Let([n.wires EXCEPT ![wire_2] = [@ EXCEPT !.pins = <<>>],
                            ![wire_1] = Merged(n, wire_1, wire_2)], LAMBDA ws :
            [n EXCEPT !.pins = ps, !.wires = [w \in OwnedWires(ps) |-> ws[w]]])))

WireConnect(n0, wire_1, wire_2) ==
    Let(n0, LAMBDA n :
        IF wire_1 = wire_2 THEN n
        ELSE Let(Redirected(n, wire_1, wire_2), LAMBDA ps :
             Let([n.wires EXCEPT ![wire_1] = Merged(n, wire_1, wire_2),
                                 ![wire_2] = [@ EXCEPT !.pins = <<>>]], LAMBDA ws :
                 [n EXCEPT !.pins = ps, !.wires = [w \in OwnedWires(ps) |-> ws[w]]])))

\* Pin::connect
PinConnect(n0, pin_1, pin_2) ==
    Let(n0, LAMBDA n : WireConnect(n, n.pins[pin_1].wire, n.pins[pin_2].wire))

\* Pin::get_connected_pins
get_connected_pins(n, p) == get_all_pins(n.wires[n.pins[p].wire])

\* Pin::get_drive
get_drive(n, p) == n.pins[p].current_drive

\* Pin::read (Wire::read)
read(n, p) == n.wires[n.pins[p].wire].value

\* Pin::new: the new pin is Len(n.pins) + 1 and owns a new wire of the same id.
PinNew(n0, initial_value) ==
    Let(n0, LAMBDA n :
        LET id == Len(n.pins) + 1
        IN  [n EXCEPT
               !.pins = Append(n.pins, [current_drive |-> initial_value,
                                        next_drive |-> None,
                                        wire |-> id]),
               !.wires = [w \in DOMAIN n.wires \cup {id} |->
                            IF w = id THEN WireSetInitialPin(WireNew, id, initial_value)
                            ELSE n.wires[w]]])

\* Pin::set_drive
PinSetDrive_at_once(n0, p, to) ==
    Let(n0, LAMBDA n :
        IF Halted(n) THEN n
        ELSE [n EXCEPT !.wires[n.pins[p].wire] =
                           WireUpdatePin(@, n.pins[p].current_drive, to),
                       !.pins[p].current_drive = to])

PinSetDrive_same_value_accepted(n0, p, to) ==
    Let(n0, LAMBDA n :
        IF Halted(n) THEN n
        ELSE IF n.pins[p].next_drive \notin {None, Some(to)}
        THEN [n EXCEPT !.fatal = "Drive set multiple times in a single tick."]
        ELSE [n EXCEPT !.pins[p].next_drive = Some(to)])

PinSetDrive(n0, p, to) ==
    Let(n0, LAMBDA n :
        IF Halted(n) THEN n
        ELSE IF n.pins[p].next_drive # None
        THEN [n EXCEPT !.fatal = "Drive set multiple times in a single tick."]
        ELSE [n EXCEPT !.pins[p].next_drive = Some(to)])

\* Pin::tick on a pin with a pending drive that differs from its current drive.
PinApply(n, p) ==
    LET pin == n.pins[p]
    IN  [n EXCEPT !.wires[pin.wire] =
                      WireUpdatePin(@, pin.current_drive, pin.next_drive[1]),
                  !.pins[p].current_drive = pin.next_drive[1],
                  !.pins[p].next_drive = None]

\* Pin::tick: the net afterwards and the value returned.
PinTick_true_on_any_pending(n0, p) ==
    Let(n0, LAMBDA n :
        LET pin == n.pins[p]
        IN  IF Halted(n) \/ pin.next_drive = None THEN [net |-> n, changed |-> FALSE]
            ELSE IF pin.current_drive = pin.next_drive[1]
            THEN [net |-> [n EXCEPT !.pins[p].next_drive = None], changed |-> TRUE]
            ELSE [net |-> PinApply(n, p), changed |-> TRUE])

PinTick(n0, p) ==
    Let(n0, LAMBDA n :
        LET pin == n.pins[p]
        IN  IF Halted(n) \/ pin.next_drive = None THEN [net |-> n, changed |-> FALSE]
            ELSE IF pin.current_drive = pin.next_drive[1]
            THEN [net |-> [n EXCEPT !.pins[p].next_drive = None], changed |-> FALSE]
            ELSE IF AccUpdatePanics(n.wires[pin.wire].drive_value_accumulator,
                                    pin.current_drive)
            THEN [net |-> [n EXCEPT !.fatal = "attempt to subtract with overflow"],
                  changed |-> FALSE]
            ELSE [net |-> PinApply(n, p), changed |-> TRUE])

(***************************************************************************)
(* Primitive devices                                                       *)
(***************************************************************************)
AddDevice(n, d) == [n EXCEPT !.devices = Append(n.devices, d)]

\* Constant::new_strong
ConstantNewStrong(n0, value) ==
    Let(n0, LAMBDA n :
        AddDevice(PinNew(n, Strong(value)),
                  [type |-> "Constant", output |-> Len(n.pins) + 1]))

ConstantNewWeak_strong(n0, value) ==
    Let(n0, LAMBDA n :
        AddDevice(PinNew(n, Strong(value)),
                  [type |-> "Constant", output |-> Len(n.pins) + 1]))

\* Constant::new_weak
ConstantNewWeak(n0, value) ==
    Let(n0, LAMBDA n :
        AddDevice(PinNew(n, Weak(value)),
                  [type |-> "Constant", output |-> Len(n.pins) + 1]))

\* TestPin::new
TestPinNew(n0, initial_drive) ==
    Let(n0, LAMBDA n :
        AddDevice(PinNew(n, initial_drive),
                  [type |-> "TestPin", output |-> Len(n.pins) + 1]))

\* Transistor::new: the source, gate and drain pins are created in this order.
TransistorNew(n0, activation) ==
    Let(n0, LAMBDA n :
        AddDevice(PinNew(PinNew(PinNew(n, DriveHighImpedance), DriveHighImpedance),
                         DriveHighImpedance),
                  [type |-> "Transistor",
                   source |-> Len(n.pins) + 1,
                   gate |-> Len(n.pins) + 2,
                   drain |-> Len(n.pins) + 3,
                   activation |-> activation,
                   error_hysteresis |-> FALSE]))

\* Transistor::new_nmos / Transistor::new_pmos
TransistorNewNmos(n) == TransistorNew(n, TRUE)
TransistorNewPmos(n) == TransistorNew(n, FALSE)

\* TestPin::set_drive: set_drive, then tick the pin at once.
TestPinSetDriveOp_no_tick(n0, t, new_drive) ==
    Let(n0, LAMBDA n : PinSetDrive(n, n.devices[t].output, new_drive))

TestPinSetDriveOp(n0, t, new_drive) ==
    Let(n0, LAMBDA n :
        PinTick(PinSetDrive(n, n.devices[t].output, new_drive), n.devices[t].output).net)

\* The match of Transistor::tick on the gate's reading g, for hysteresis flag h:
\* the LogicValue `next`, or no value when the function returns early.
NextDrain_no_hysteresis(activation, g, s, h) ==
    IF g.logic = "Driven"
    THEN IF g.value = activation THEN Some(s) ELSE Some(LogicHighImpedance)
    ELSE Some(LogicError)

NextDrain_drive_when_off(activation, g, s, h) ==
    IF g.logic = "Driven"
    THEN Some(s)
    ELSE IF ~h THEN None ELSE Some(LogicError)

NextDrain(activation, g, s, h) ==
    IF g.logic = "Driven"
    THEN IF g.value = activation THEN Some(s) ELSE Some(LogicHighImpedance)
    ELSE IF ~h THEN None ELSE Some(LogicError)

NextHysteresis_never_cleared(g, h) == IF g.logic = "Driven" THEN h ELSE TRUE

\* The error_hysteresis flag after Transistor::tick.
NextHysteresis(g, h) == IF g.logic = "Driven" THEN FALSE ELSE TRUE

\* How Transistor::tick hands `next` to the drain pin.
SetDrain_at_once(n, drain, next) ==
    PinTick(PinSetDrive(n, drain, DriveFromLogic(next)), drain).net

SetDrain(n, drain, next) == PinSetDrive(n, drain, DriveFromLogic(next))

\* Transistor::tick: the net afterwards and the value returned.
TransistorTick_true_on_flag_change(n0, t) ==
    Let(n0, LAMBDA n :
        LET tr == n.devices[t]
            next == NextDrain(tr.activation, read(n, tr.gate), read(n, tr.source),
                              tr.error_hysteresis)
            n1 == [n EXCEPT !.devices[t].error_hysteresis =
                                NextHysteresis(read(n, tr.gate), tr.error_hysteresis)]
        IN  IF Halted(n) THEN [net |-> n, changed |-> FALSE]
            ELSE IF next = None THEN [net |-> n1, changed |-> TRUE]
            ELSE [net |-> SetDrain(n1, tr.drain, next[1]),
                  changed |-> \/ LogicFromDrive(get_drive(n, tr.drain)) # next[1]
                              \/ n1.devices[t].error_hysteresis # tr.error_hysteresis])

TransistorTick_silent_hysteresis(n0, t) ==
    Let(n0, LAMBDA n :
        LET tr == n.devices[t]
            next == NextDrain(tr.activation, read(n, tr.gate), read(n, tr.source),
                              tr.error_hysteresis)
            n1 == [n EXCEPT !.devices[t].error_hysteresis =
                                NextHysteresis(read(n, tr.gate), tr.error_hysteresis)]
        IN  IF Halted(n) THEN [net |-> n, changed |-> FALSE]
            ELSE IF next = None THEN [net |-> n1, changed |-> FALSE]
            ELSE [net |-> SetDrain(n1, tr.drain, next[1]),
                  changed |-> LogicFromDrive(get_drive(n, tr.drain)) # next[1]])

TransistorTick(n0, t) ==
    Let(n0, LAMBDA n :
        LET tr == n.devices[t]
            next == NextDrain(tr.activation, read(n, tr.gate), read(n, tr.source),
                              tr.error_hysteresis)
            n1 == [n EXCEPT !.devices[t].error_hysteresis =
                                NextHysteresis(read(n, tr.gate), tr.error_hysteresis)]
        IN  IF Halted(n) THEN [net |-> n, changed |-> FALSE]
            ELSE IF next = None THEN [net |-> n1, changed |-> TRUE]
            ELSE [net |-> SetDrain(n1, tr.drain, next[1]),
                  changed |-> LogicFromDrive(get_drive(n, tr.drain)) # next[1]])

TransistorPinsTick_drain_skipped(n0, t) ==
    Let(n0, LAMBDA n :
    Let(PinTick(n, n.devices[t].gate), LAMBDA r2 :
    Let(PinTick(r2.net, n.devices[t].source), LAMBDA r3 :
        [net |-> r3.net, changed |-> r2.changed \/ r3.changed])))

\* The three pin ticks tick_pins makes at a Transistor: drain, gate, source.
TransistorPinsTick(n0, t) ==
    Let(n0, LAMBDA n :
    Let(PinTick(n, n.devices[t].drain), LAMBDA r1 :
    Let(PinTick(r1.net, n.devices[t].gate), LAMBDA r2 :
    Let(PinTick(r2.net, n.devices[t].source), LAMBDA r3 :
        [net |-> r3.net, changed |-> r1.changed \/ r2.changed \/ r3.changed]))))

(***************************************************************************)
(* Simulation driver.  `order` is the sequence in which one traversal of   *)
(* the device tree meets the Transistors.                                  *)
(***************************************************************************)
\* tick_transistors, from the point where the traversal has `order` left to
\* visit and the local `changed` is `so_far`.
RECURSIVE tick_transistors_from(_, _, _)
tick_transistors_from(n, order, so_far) ==
    IF order = <<>> THEN [net |-> n, changed |-> so_far]
    ELSE Let(TransistorTick(n, Head(order)), LAMBDA r :
             tick_transistors_from(r.net, Tail(order), so_far \/ r.changed))

\* tick_transistors
tick_transistors(n, order) == tick_transistors_from(n, order, FALSE)

\* tick_pins, from the point where the traversal has `order` left to visit.
RECURSIVE tick_pins_from(_, _, _)
tick_pins_from(n, order, so_far) ==
    IF order = <<>> THEN [net |-> n, changed |-> so_far]
    ELSE Let(TransistorPinsTick(n, Head(order)), LAMBDA r :
             tick_pins_from(r.net, Tail(order), so_far \/ r.changed))

\* Pin::tick on each pin of the sequence ps, in its order.
RECURSIVE PinTicks(_, _, _)
PinTicks(n, ps, so_far) ==
    IF ps = <<>> THEN [net |-> n, changed |-> so_far]
    ELSE Let(PinTick(n, Head(ps)), LAMBDA r :
             PinTicks(r.net, Tail(ps), so_far \/ r.changed))

\* tick_pins
tick_pins_every_pin(n, order) == PinTicks(n, [i \in DOMAIN n.pins |-> i], FALSE)

tick_pins(n, order) == tick_pins_from(n, order, FALSE)

\* tick
tick(n0, orderA, orderB) ==
    Let(tick_transistors(n0, orderA), LAMBDA a :
    Let(tick_pins(a.net, orderB), LAMBDA b :
        [net |-> b.net, changed |-> a.changed \/ b.changed]))

\* The body of settle's loop: ticks += 1.
IncrementTicks_twice(count) == count + 2

IncrementTicks(count) == count + 1

\* The condition of settle's while loop on the value tick returned.
SettleContinues_never(tick_returned) == FALSE

SettleContinues(tick_returned) == tick_returned

\* settle: `count` is the local `ticks`; the run is followed for at most
\* `fuel` tick calls, and `returned` tells whether settle came back in that time.
RECURSIVE settle(_, _, _, _, _)
settle(n0, orderA, orderB, count, fuel) ==
    IF fuel = 0 THEN [net |-> n0, ticks |-> count, returned |-> FALSE]
    ELSE Let(tick(n0, orderA, orderB), LAMBDA r :
             IF Halted(r.net) THEN [net |-> r.net, ticks |-> count, returned |-> FALSE]
             ELSE IF SettleContinues(r.changed)
             THEN settle(r.net, orderA, orderB, IncrementTicks(count), fuel - 1)
             ELSE [net |-> r.net, ticks |-> count, returned |-> TRUE])

\* The device tree.  A node is a primitive device (Leaf) or a device with a
\* children map (Composite): a sequence of containers, each a sequence of
\* nodes (one node for #[child], a Vec of them for #[children]).
Leaf(d) == [device |-> d]
Composite(containers) == [containers |-> containers]

\* The sequences made of one sequence from each set of ss, in order.
RECURSIVE Concats(_)
Concats(ss) ==
    IF ss = <<>> THEN {<<>>}
    ELSE {a \o b : a \in Head(ss), b \in Concats(Tail(ss))}

ChildOrders(k) == {f \in [1..k -> 1..k] : \A i, j \in 1..k : f[i] = f[j] => i = j}

\* The orders in which a traversal can meet the primitive devices of a tree:
\* a children map is a HashMap built at each call, so its containers come in
\* any order; the nodes of a container come in the order of its Vec.
RECURSIVE NodeOrders(_), ContainerOrders(_), TraversalOrders(_)
NodeOrders(node) ==
    IF "device" \in DOMAIN node THEN {<<node.device>>}
    ELSE TraversalOrders(node.containers)

ContainerOrders(c) == Concats([i \in 1..Len(c) |-> NodeOrders(c[i])])

TraversalOrders(ch) ==
    UNION {Concats([i \in 1..Len(ch) |-> ContainerOrders(ch[f[i]])]) :
              f \in ChildOrders(Len(ch))}

\* The same orders, without the devices a traversal does nothing at.
TransistorsIn(ds, order) ==
    LET is_transistor(t) == ds[t].type = "Transistor" IN SelectSeq(order, is_transistor)

\* The tree with each Constant and TestPin as what the traversal meets there:
\* a device that is no Transistor and has an empty children map.
RECURSIVE Pruned(_, _), PrunedNode(_, _)
PrunedNode(ds, node) ==
    IF "device" \in DOMAIN node
    THEN IF ds[node.device].type = "Transistor" THEN node ELSE Composite(<<>>)
    ELSE Composite(Pruned(ds, node.containers))

Pruned(ds, ch) == [i \in DOMAIN ch |-> [j \in DOMAIN ch[i] |-> PrunedNode(ds, ch[i][j])]]

TransistorOrders(ds, ch) ==
    {TransistorsIn(ds, order) : order \in TraversalOrders(Pruned(ds, ch))}

\* A depth-first walk of the tree that takes the containers of every children
\* map in the order of the array the map is built from (the #[child] fields
\* as declared, then the #[children] fields as declared).
RECURSIVE InsertionOrder(_), InsertionOrderNodes(_)
InsertionOrderNodes(c) ==
    IF c = <<>> THEN <<>>
    ELSE (IF "device" \in DOMAIN Head(c) THEN <<Head(c).device>>
          ELSE InsertionOrder(Head(c).containers)) \o InsertionOrderNodes(Tail(c))

InsertionOrder(ch) ==
    IF ch = <<>> THEN <<>>
    ELSE InsertionOrderNodes(Head(ch)) \o InsertionOrder(Tail(ch))

(***************************************************************************)
(* State, and the parts every specification shares                         *)
(***************************************************************************)
Net == [pins |-> pins, wires |-> wires, devices |-> devices, fatal |-> fatal]

SetNet(n0) ==
    \E n \in {n0} :
        pins' = n.pins /\ wires' = n.wires /\ devices' = n.devices /\ fatal' = n.fatal

InitNet(n0) ==
    \E n \in {n0} :
        pins = n.pins /\ wires = n.wires /\ devices = n.devices /\ fatal = n.fatal

EmptyNet == [pins |-> <<>>, wires |-> <<>>, devices |-> <<>>, fatal |-> "none"]

DriverIdle ==
    /\ mode = "idle" /\ phase = "none" /\ changed = FALSE
    /\ ticks = 0 /\ tickCalls = 0 /\ history = <<>>

AccIdle == acc = AccNew /\ accValue = LogicHighImpedance

Idle == mode = "idle" /\ fatal = "none"

PinIds == DOMAIN pins
DeviceIds == DOMAIN devices
Singles == {t \in DeviceIds : devices[t].type # "Transistor"}
TestPins == {t \in DeviceIds : devices[t].type = "TestPin"}
Transistors == {t \in DeviceIds : devices[t].type = "Transistor"}

(***************************************************************************)
(* Spec: a bench.  One NMOS Transistor is constructed, then TestPins are    *)
(* added, pins are connected, TestPins are driven and the bench is ticked  *)
(* and settled, in any order.  A connect is called on any two pins, either *)
(* of them first.  `history` holds the settle call that has returned and   *)
(* has not been followed by another operation yet.                         *)
(***************************************************************************)
Init ==
    /\ InitNet(TransistorNewNmos(EmptyNet))
    /\ children = << <<Leaf(1)>> >>
    /\ DriverIdle
    /\ AccIdle

AddChild == children' = Append(children, <<Leaf(Len(devices) + 1)>>)

NewTestPin(initial_drive) ==
    /\ Idle /\ Cardinality(Singles) < MaxSingles
    /\ SetNet(TestPinNew(Net, initial_drive))
    /\ AddChild
    /\ history' = <<>>
    /\ UNCHANGED <<mode, phase, changed, ticks, tickCalls, accVars>>

Connect(pin_1, pin_2) ==
    /\ Idle
    /\ SetNet(PinConnect(Net, pin_1, pin_2))
    /\ history' = <<>>
    /\ UNCHANGED <<children, mode, phase, changed, ticks, tickCalls, accVars>>

TestPinSetDrive(t, new_drive) ==
    /\ Idle
    /\ SetNet(TestPinSetDriveOp(Net, t, new_drive))
    /\ history' = <<>>
    /\ UNCHANGED <<children, mode, phase, changed, ticks, tickCalls, accVars>>

\* tick, up to the end of its first statement: tick_transistors has run.
TickTransistors ==
    /\ Idle
    /\ \E orderA \in TransistorOrders(devices, children) :
          \E a \in {tick_transistors(Net, orderA)} :
              SetNet(a.net) /\ changed' = a.changed
    /\ mode' = "tick" /\ phase' = "pins" /\ history' = <<>>
    /\ UNCHANGED <<children, ticks, tickCalls, accVars>>

\* tick, its second statement and the return.
TickPins ==
    /\ mode = "tick" /\ phase = "pins"
    /\ \E orderB \in TransistorOrders(devices, children) :
          SetNet(tick_pins(Net, orderB).net)
    /\ mode' = "idle" /\ phase' = "none" /\ changed' = FALSE
    /\ UNCHANGED <<children, ticks, tickCalls, history, accVars>>

Settle ==
    /\ Idle
    /\ \E orderA, orderB \in TransistorOrders(devices, children) :
          \E s \in {settle(Net, orderA, orderB, 0, MaxSettleTicks)} :
              /\ s.returned
              /\ SetNet(s.net)
              /\ history' = <<[op |-> "settle", value |-> s.ticks]>>
    /\ UNCHANGED <<children, mode, phase, changed, ticks, tickCalls, accVars>>

Next ==
    \/ \E initial_drive \in DRIVE_VALUES : NewTestPin(initial_drive)
    \/ \E pin_1, pin_2 \in PinIds : Connect(pin_1, pin_2)
    \/ \E t \in TestPins, new_drive \in DRIVE_VALUES : TestPinSetDrive(t, new_drive)
    \/ TickTransistors
    \/ TickPins
    \/ Settle

Spec == Init /\ [][Next]_vars

(***************************************************************************)
(* SpecSimple: the SimpleDevice of the driver's tests (two Constants, an   *)
(* NMOS in a Vec and a PMOS, drains joined, sources on the rails), built   *)
(* as SimpleDevice::new builds it, with a pending drive on each of its two *)
(* input (gate) pins, then ticked and settled call by call.                *)
(***************************************************************************)
\* SimpleDevice::new: strong_true is device 1, strong_false device 2, nmos[0]
\* device 3 and pmos device 4.
SimpleDeviceNew ==
    Let(TransistorNewPmos(TransistorNewNmos(
            ConstantNewStrong(ConstantNewStrong(EmptyNet, TRUE), FALSE))), LAMBDA n :
        PinConnect(
            PinConnect(
                PinConnect(n, n.devices[2].output, n.devices[3].source),
                n.devices[1].output, n.devices[4].source),
            n.devices[3].drain, n.devices[4].drain))

\* The fields of SimpleDevice: its children as the derived children() lists
\* them (the #[child] fields strong_true, strong_false and pmos, then the
\* #[children] field nmos), and its pins.
SimpleChildren == << <<Leaf(1)>>, <<Leaf(2)>>, <<Leaf(4)>>, <<Leaf(3)>> >>
SimpleInput == <<SimpleDeviceNew.devices[3].gate, SimpleDeviceNew.devices[4].gate>>
SimpleOutput == SimpleDeviceNew.devices[4].drain

InitSimple ==
    /\ \E d0, d1 \in DRIVE_VALUES :
          InitNet(PinSetDrive(PinSetDrive(SimpleDeviceNew, SimpleInput[1], d0),
                              SimpleInput[2], d1))
    /\ children = SimpleChildren
    /\ DriverIdle
    /\ AccIdle

CanCall == Idle /\ Len(history) < MaxCalls

\* A call of tick(root).
TickCall ==
    /\ CanCall
    /\ mode' = "tick" /\ phase' = "call"
    /\ UNCHANGED <<netVars, changed, ticks, tickCalls, history, accVars>>

\* A call of settle(root): ticks = 0.
SettleCall ==
    /\ CanCall
    /\ mode' = "settle" /\ phase' = "call"
    /\ ticks' = 0 /\ tickCalls' = 0
    /\ UNCHANGED <<netVars, changed, history, accVars>>

\* tick: changed = false; changed |= tick_transistors(device).
StepTransistors ==
    /\ mode \in {"tick", "settle"} /\ phase = "call" /\ fatal = "none"
    /\ \E orderA \in TransistorOrders(devices, children) :
          \E a \in {tick_transistors(Net, orderA)} :
              SetNet(a.net) /\ changed' = a.changed
    /\ phase' = "pins"
    /\ tickCalls' = IF mode = "settle" THEN tickCalls + 1 ELSE tickCalls
    /\ UNCHANGED <<children, mode, ticks, history, accVars>>

\* tick: changed |= tick_pins(device).
StepPins ==
    /\ mode \in {"tick", "settle"} /\ phase = "pins" /\ fatal = "none"
    /\ \E orderB \in TransistorOrders(devices, children) :
          \E b \in {tick_pins(Net, orderB)} :
              SetNet(b.net) /\ changed' = (changed \/ b.changed)
    /\ phase' = "returned"
    /\ UNCHANGED <<children, mode, ticks, tickCalls, history, accVars>>

\* tick returns `changed` to the caller of tick.
TickReturn ==
    /\ mode = "tick" /\ phase = "returned" /\ fatal = "none"
    /\ history' = Append(history, [op |-> "tick", value |-> changed])
    /\ mode' = "idle" /\ phase' = "none" /\ changed' = FALSE
    /\ UNCHANGED <<netVars, ticks, tickCalls, accVars>>

\* settle: tick returned true; ticks += 1 and the loop calls tick again.
SettleLoop ==
    /\ mode = "settle" /\ phase = "returned" /\ fatal = "none"
    /\ SettleContinues(changed)
    /\ ticks < MaxSettleTicks
    /\ ticks' = IncrementTicks(ticks)
    /\ phase' = "call" /\ changed' = FALSE
    /\ UNCHANGED <<netVars, mode, tickCalls, history, accVars>>

\* settle: tick returned false; settle returns ticks.
SettleReturn ==
    /\ mode = "settle" /\ phase = "returned" /\ fatal = "none"
    /\ ~SettleContinues(changed)
    /\ history' = Append(history, [op |-> "settle", value |-> ticks])
    /\ mode' = "idle" /\ phase' = "none" /\ changed' = FALSE
    /\ UNCHANGED <<netVars, ticks, tickCalls, accVars>>

NextSimple ==
    \/ TickCall
    \/ SettleCall
    \/ StepTransistors
    \/ StepPins
    \/ TickReturn
    \/ SettleLoop
    \/ SettleReturn

SpecSimple == InitSimple /\ [][NextSimple]_vars

(***************************************************************************)
(* SpecBuffer: a BufferGate (two NotGates, the first one's output on the   *)
(* second one's input) with a TestPin on its input, as in the gate's test; *)
(* the TestPin is driven and the gate is ticked and settled call by call.  *)
(***************************************************************************)
NotGateNew_rails_swapped(n0) ==
    Let(n0, LAMBDA m :
    Let(TransistorNewPmos(TransistorNewNmos(
            ConstantNewStrong(ConstantNewStrong(m, TRUE), FALSE))), LAMBDA n :
        LET constant_true == n.devices[Len(m.devices) + 1]
            constant_false == n.devices[Len(m.devices) + 2]
            nmos == n.devices[Len(m.devices) + 3]
            pmos == n.devices[Len(m.devices) + 4]
        IN  [net |-> PinConnect(
                         PinConnect(
                             PinConnect(
                                 PinConnect(n, nmos.gate, pmos.gate),
                                 nmos.drain, pmos.drain),
                             constant_true.output, nmos.source),
                         constant_false.output, pmos.source),
             node |-> Composite(<< <<Leaf(Len(m.devices) + 1)>>, <<Leaf(Len(m.devices) + 2)>>,
                                   <<Leaf(Len(m.devices) + 3)>>, <<Leaf(Len(m.devices) + 4)>> >>),
             input |-> nmos.gate,
             output |-> nmos.drain]))

\* NotGate::new, on net n0: the net afterwards, the gate's node in the device
\* tree, and its input and output pins.  constant_true, constant_false, nmos
\* and pmos are the four devices after those of n0.
NotGateNew(n0) ==
    Let(n0, LAMBDA m :
    Let(TransistorNewPmos(TransistorNewNmos(
            ConstantNewStrong(ConstantNewStrong(m, TRUE), FALSE))), LAMBDA n :
        LET constant_true == n.devices[Len(m.devices) + 1]
            constant_false == n.devices[Len(m.devices) + 2]
            nmos == n.devices[Len(m.devices) + 3]
            pmos == n.devices[Len(m.devices) + 4]
        IN  [net |-> PinConnect(
                         PinConnect(
                             PinConnect(
                                 PinConnect(n, nmos.gate, pmos.gate),
                                 nmos.drain, pmos.drain),
                             constant_false.output, nmos.source),
                         constant_true.output, pmos.source),
             node |-> Composite(<< <<Leaf(Len(m.devices) + 1)>>, <<Leaf(Len(m.devices) + 2)>>,
                                   <<Leaf(Len(m.devices) + 3)>>, <<Leaf(Len(m.devices) + 4)>> >>),
             input |-> nmos.gate,
             output |-> nmos.drain]))

\* BufferGate::new
BufferGateNew(n0) ==
    Let(NotGateNew(n0), LAMBDA not_gate_0 :
    Let(NotGateNew(not_gate_0.net), LAMBDA not_gate_1 :
        [net |-> PinConnect(not_gate_1.net, not_gate_0.output, not_gate_1.input),
         node |-> Composite(<< <<not_gate_0.node, not_gate_1.node>> >>),
         input |-> not_gate_0.input,
         output |-> not_gate_1.output]))

\* test_buffer_gate: the gate, a TestPin at HighImpedance, and the connect.
BufferBench ==
    Let(BufferGateNew(EmptyNet), LAMBDA buffer_gate :
    Let(TestPinNew(buffer_gate.net, DriveHighImpedance), LAMBDA n :
        [net |-> PinConnect(n, n.devices[Len(n.devices)].output, buffer_gate.input),
         node |-> buffer_gate.node,
         test_pin |-> Len(n.devices),
         output |-> buffer_gate.output]))

InitBuffer ==
    /\ \E bench \in {BufferBench} :
          InitNet(bench.net) /\ children = bench.node.containers
    /\ DriverIdle
    /\ AccIdle

\* test_pin.set_drive(new_drive), between two driver calls.
Drive(t, new_drive) ==
    /\ CanCall
    /\ SetNet(TestPinSetDriveOp(Net, t, new_drive))
    /\ history' = Append(history, [op |-> "set_drive", value |-> new_drive])
    /\ UNCHANGED <<children, mode, phase, changed, ticks, tickCalls, accVars>>

NextBuffer ==
    \/ \E t \in TestPins, new_drive \in DRIVE_VALUES : Drive(t, new_drive)
    \/ TickCall
    \/ SettleCall
    \/ StepTransistors
    \/ StepPins
    \/ TickReturn
    \/ SettleLoop
    \/ SettleReturn

SpecBuffer == InitBuffer /\ [][NextBuffer]_vars

(***************************************************************************)
(* SpecTransistor: one Transistor of either polarity, driven as the        *)
(* helper tick_transistor of its tests drives it: the gate and source pins *)
(* are set and ticked, the transistor is ticked, the drain pin is ticked.  *)
(* `history` holds the gate drive of each call of the helper.              *)
(***************************************************************************)
InitTransistor ==
    /\ \E activation \in BOOLEAN : InitNet(TransistorNew(EmptyNet, activation))
    /\ children = << <<Leaf(1)>> >>
    /\ DriverIdle
    /\ AccIdle

\* The transistor under test.
UnderTest == devices[1]

\* tick_transistor: set_drive and tick on the gate and the source pins.
HelperInputs(gate, source) ==
    /\ CanCall
    /\ SetNet(PinTick(PinTick(PinSetDrive(PinSetDrive(Net, UnderTest.gate, gate),
                                          UnderTest.source, source),
                              UnderTest.gate).net,
                      UnderTest.source).net)
    /\ mode' = "tick_transistor" /\ phase' = "inputs"
    /\ UNCHANGED <<children, changed, ticks, tickCalls, history, accVars>>

\* tick_transistor: transistor.tick().
HelperTransistorTick ==
    /\ mode = "tick_transistor" /\ phase = "inputs" /\ fatal = "none"
    /\ \E a \in {TransistorTick(Net, 1)} : SetNet(a.net) /\ changed' = a.changed
    /\ phase' = "ticked"
    /\ UNCHANGED <<children, mode, ticks, tickCalls, history, accVars>>

\* tick_transistor: the drain pin is ticked and its drive is returned.
HelperDrainTick ==
    /\ mode = "tick_transistor" /\ phase = "ticked" /\ fatal = "none"
    /\ SetNet(PinTick(Net, UnderTest.drain).net)
    /\ history' = Append(history, [op |-> "tick_transistor",
                                   gate |-> get_drive(Net, UnderTest.gate)])
    /\ mode' = "idle" /\ phase' = "none" /\ changed' = FALSE
    /\ UNCHANGED <<children, ticks, tickCalls, accVars>>

NextTransistor ==
    \/ \E gate, source \in DRIVE_VALUES : HelperInputs(gate, source)
    \/ HelperTransistorTick
    \/ HelperDrainTick

SpecTransistor == InitTransistor /\ [][NextTransistor]_vars

(***************************************************************************)
(* SpecHeld: one Transistor of either polarity, as the root device.  Its   *)
(* gate and source pins are set and ticked as tick_transistor sets them,   *)
(* and then left alone, so that both wires keep their values; its drain    *)
(* pin is set and ticked the same way, to any drive; the transistor is     *)
(* ticked and settled.  `history` holds the settle call that has only just *)
(* returned.                                                               *)
(***************************************************************************)
\* set_drive and tick on the gate and the source pins.
HoldInputs(gate, source) ==
    /\ Idle
    /\ SetNet(PinTick(PinTick(PinSetDrive(PinSetDrive(Net, UnderTest.gate, gate),
                                          UnderTest.source, source),
                              UnderTest.gate).net,
                      UnderTest.source).net)
    /\ history' = <<>>
    /\ UNCHANGED <<children, mode, phase, changed, ticks, tickCalls, accVars>>

\* set_drive and tick on the drain pin.
DriveDrain(to) ==
    /\ Idle
    /\ SetNet(PinTick(PinSetDrive(Net, UnderTest.drain, to), UnderTest.drain).net)
    /\ history' = <<>>
    /\ UNCHANGED <<children, mode, phase, changed, ticks, tickCalls, accVars>>

NextHeld ==
    \/ \E gate, source \in DRIVE_VALUES : HoldInputs(gate, source)
    \/ \E to \in DRIVE_VALUES : DriveDrain(to)
    \/ TickTransistors
    \/ TickPins
    \/ Settle

SpecHeld == InitTransistor /\ [][NextHeld]_vars

(***************************************************************************)
(* SpecAcc: one DriveValueAccumulator on its own, from new(), under any    *)
(* sequence of update and add calls that keeps its counters within         *)
(* MaxCount.                                                               *)
(***************************************************************************)
Accumulators ==
    [strong_true : 0..MaxCount, strong_false : 0..MaxCount, weak_true : 0..MaxCount,
     weak_false : 0..MaxCount, error : 0..MaxCount]

\* Nothing has been constructed.
InitEmpty ==
    /\ InitNet(EmptyNet)
    /\ children = <<>>
    /\ DriverIdle
    /\ AccIdle

\* DriveValueAccumulator::update
AccUpdateCall(before, after) ==
    /\ fatal = "none"
    /\ IF AccUpdatePanics(acc, before)
       THEN /\ fatal' = "attempt to subtract with overflow"
            /\ UNCHANGED <<acc, accValue>>
       ELSE /\ AccUpdate(acc, before, after) \in Accumulators
            /\ acc' = AccUpdate(acc, before, after)
            /\ accValue' = get_value(acc')
            /\ UNCHANGED fatal
    /\ UNCHANGED <<pins, wires, devices, children, drvVars>>

\* DriveValueAccumulator::add
AccAddCall(other) ==
    /\ fatal = "none"
    /\ AccAdd(acc, other) \in Accumulators
    /\ acc' = AccAdd(acc, other)
    /\ accValue' = get_value(acc')
    /\ UNCHANGED <<netVars, drvVars>>

NextAcc ==
    \/ \E before, after \in DRIVE_VALUES : AccUpdateCall(before, after)
    \/ \E other \in Accumulators : AccAddCall(other)

SpecAcc == InitEmpty /\ [][NextAcc]_vars

(***************************************************************************)
(* SpecWire: pins are created on their own, with any initial drive, and    *)
(* connected, in any order.                                                *)
(***************************************************************************)
NewPin(initial_value) ==
    /\ Len(pins) < MaxPins
    /\ SetNet(PinNew(Net, initial_value))
    /\ UNCHANGED <<children, drvVars, accVars>>

NextWire ==
    \/ \E initial_value \in DRIVE_VALUES : NewPin(initial_value)
    \/ \E pin_1, pin_2 \in PinIds : Connect(pin_1, pin_2)

SpecWire == InitEmpty /\ [][NextWire]_vars

(***************************************************************************)
(* SpecPin: two pins, created as in the pin tests with any initial drives, *)
(* on which connect, set_drive and tick are called directly, in any order. *)
(* `changed` holds the value the last Pin::tick returned.                  *)
(***************************************************************************)
InitPins ==
    /\ \E initial_1, initial_2 \in DRIVE_VALUES :
          InitNet(PinNew(PinNew(EmptyNet, initial_1), initial_2))
    /\ children = <<>>
    /\ DriverIdle
    /\ AccIdle

\* pin.borrow_mut().set_drive(to)
SetDrive(p, to) ==
    /\ Idle
    /\ SetNet(PinSetDrive(Net, p, to))
    /\ UNCHANGED <<children, drvVars, accVars>>

\* pin.borrow_mut().tick()
Tick(p) ==
    /\ Idle
    /\ \E r \in {PinTick(Net, p)} : SetNet(r.net) /\ changed' = r.changed
    /\ UNCHANGED <<children, mode, phase, ticks, tickCalls, history, accVars>>

NextPin ==
    \/ \E pin_1, pin_2 \in PinIds : Connect(pin_1, pin_2)
    \/ \E p \in PinIds, to \in DRIVE_VALUES : SetDrive(p, to)
    \/ \E p \in PinIds : Tick(p)

SpecPin == InitPins /\ [][NextPin]_vars

(***************************************************************************)
(* SpecCalls: a bench of one NMOS Transistor on which every operation of   *)
(* the pin fabric and of the driver is called, in any order: TestPins and  *)
(* pins of their own are created, any two pins are connected, set_drive    *)
(* and tick are called on any pin directly (a pin of the Transistor or of  *)
(* a TestPin included), TestPins are driven, and the bench is ticked and   *)
(* settled.  A call that panics ends the run.  `history` holds one entry   *)
(* for each call made; a run is followed for MaxBenchCalls calls.          *)
(***************************************************************************)
CanCallBench == Idle /\ Len(history) < MaxBenchCalls

Called == history' = Append(history, [op |-> "call"])

\* The pins that belong to no device.
OwnPins ==
    PinIds \ UNION {IF devices[t].type = "Transistor"
                    THEN {devices[t].drain, devices[t].gate, devices[t].source}
                    ELSE {devices[t].output} : t \in DeviceIds}

CallNewTestPin(initial_drive) ==
    /\ CanCallBench /\ Cardinality(TestPins) < MaxSingles
    /\ SetNet(TestPinNew(Net, initial_drive))
    /\ AddChild
    /\ Called
    /\ UNCHANGED <<mode, phase, changed, ticks, tickCalls, accVars>>

CallNewPin(initial_value) ==
    /\ CanCallBench /\ Cardinality(OwnPins) < MaxOwnPins
    /\ SetNet(PinNew(Net, initial_value))
    /\ Called
    /\ UNCHANGED <<children, mode, phase, changed, ticks, tickCalls, accVars>>

CallConnect(pin_1, pin_2) ==
    /\ CanCallBench
    /\ SetNet(PinConnect(Net, pin_1, pin_2))
    /\ Called
    /\ UNCHANGED <<children, mode, phase, changed, ticks, tickCalls, accVars>>

CallSetDrive(p, to) ==
    /\ CanCallBench
    /\ SetNet(PinSetDrive(Net, p, to))
    /\ Called
    /\ UNCHANGED <<children, mode, phase, changed, ticks, tickCalls, accVars>>

CallTick(p) ==
    /\ CanCallBench
    /\ \E r \in {PinTick(Net, p)} : SetNet(r.net) /\ changed' = r.changed
    /\ Called
    /\ UNCHANGED <<children, mode, phase, ticks, tickCalls, accVars>>

CallTestPinSetDrive(t, new_drive) ==
    /\ CanCallBench
    /\ SetNet(TestPinSetDriveOp(Net, t, new_drive))
    /\ Called
    /\ UNCHANGED <<children, mode, phase, changed, ticks, tickCalls, accVars>>

\* tick(root), up to the end of its first statement.
CallTickTransistors ==
    /\ CanCallBench
    /\ \E orderA \in TransistorOrders(devices, children) :
          \E a \in {tick_transistors(Net, orderA)} :
              SetNet(a.net) /\ changed' = a.changed
    /\ mode' = "tick" /\ phase' = "pins"
    /\ UNCHANGED <<children, ticks, tickCalls, history, accVars>>

\* tick(root), its second statement and the return.
CallTickPins ==
    /\ mode = "tick" /\ phase = "pins" /\ fatal = "none"
    /\ \E orderB \in TransistorOrders(devices, children) :
          \E b \in {tick_pins(Net, orderB)} :
              SetNet(b.net) /\ changed' = (changed \/ b.changed)
    /\ mode' = "idle" /\ phase' = "none"
    /\ Called
    /\ UNCHANGED <<children, ticks, tickCalls, accVars>>

\* settle(root): it returns, or a tick of it panics.
CallSettle ==
    /\ CanCallBench
    /\ \E orderA, orderB \in TransistorOrders(devices, children) :
          \E s \in {settle(Net, orderA, orderB, 0, MaxSettleTicks)} :
              /\ s.returned \/ Halted(s.net)
              /\ SetNet(s.net)
              /\ ticks' = s.ticks
    /\ Called
    /\ UNCHANGED <<children, mode, phase, changed, tickCalls, accVars>>

NextCalls ==
    \/ \E initial_drive \in DRIVE_VALUES : CallNewTestPin(initial_drive)
    \/ \E initial_value \in DRIVE_VALUES : CallNewPin(initial_value)
    \/ \E pin_1, pin_2 \in PinIds : CallConnect(pin_1, pin_2)
    \/ \E p \in PinIds, to \in DRIVE_VALUES : CallSetDrive(p, to)
    \/ \E p \in PinIds : CallTick(p)
    \/ \E t \in TestPins, new_drive \in DRIVE_VALUES : CallTestPinSetDrive(t, new_drive)
    \/ CallTickTransistors
    \/ CallTickPins
    \/ CallSettle

SpecCalls == Init /\ [][NextCalls]_vars

(***************************************************************************)
(* SpecPending: the SimpleDevice with a TestPin connected to its first     *)
(* input, where set_drive has been called on the output pin of the Constant *)
(* strong_false, on the TestPin's pin and on the second input (the PMOS     *)
(* gate), each with any value; the device is then ticked and settled call   *)
(* by call.  The TestPin is not part of the device tree.                    *)
(***************************************************************************)
PendingBench ==
    Let(TestPinNew(SimpleDeviceNew, DriveHighImpedance), LAMBDA n :
        [net |-> PinConnect(n, n.devices[Len(n.devices)].output, SimpleInput[1]),
         strong_false |-> n.devices[2].output,
         test_pin |-> n.devices[Len(n.devices)].output])

InitPending ==
    /\ \E on_constant, on_test_pin, on_gate \in DRIVE_VALUES :
          InitNet(PinSetDrive(PinSetDrive(PinSetDrive(PendingBench.net,
                                                      PendingBench.strong_false, on_constant),
                                          PendingBench.test_pin, on_test_pin),
                              SimpleInput[2], on_gate))
    /\ children = SimpleChildren
    /\ DriverIdle
    /\ AccIdle

SpecPending == InitPending /\ [][NextSimple]_vars

(***************************************************************************)
(* SpecOr: an OrGate with two inputs (a NorGate and a NotGate, two         *)
(* children of the gate, the NorGate's output on the NotGate's input) with *)
(* a TestPin on each input, as in the gate's test; the TestPins are driven *)
(* and the gate is ticked, in any order.                                   *)
(***************************************************************************)
\* (0..k).map(|_| Transistor::new(activation)).collect()
RECURSIVE TransistorsNew(_, _, _)
TransistorsNew(n, activation, k) ==
    IF k = 0 THEN n ELSE TransistorsNew(TransistorNew(n, activation), activation, k - 1)

\* Pin::connect on each pair of the sequence, in its order.
RECURSIVE PinConnects(_, _)
PinConnects(n, pairs) ==
    IF pairs = <<>> THEN n
    ELSE PinConnects(PinConnect(n, Head(pairs)[1], Head(pairs)[2]), Tail(pairs))

\* NorGate::new(num_inputs), for two inputs or more, on net n0: strong_true,
\* strong_false, the nmos Vec and the pmos Vec are the devices after those
\* of n0, in this order.
NorGateNew_pmos_in_parallel(n0, num_inputs) ==
    Let(n0, LAMBDA m :
    Let(TransistorsNew(
            TransistorsNew(ConstantNewStrong(ConstantNewStrong(m, TRUE), FALSE),
                           TRUE, num_inputs),
            FALSE, num_inputs), LAMBDA n :
        LET base == Len(m.devices)
            strong_true == n.devices[base + 1]
            strong_false == n.devices[base + 2]
            nmos == [i \in 1..num_inputs |-> n.devices[base + 2 + i]]
            pmos == [i \in 1..num_inputs |-> n.devices[base + 2 + num_inputs + i]]
            connects ==
                << <<strong_true.output, pmos[1].source>> >>
                \o [i \in 1..num_inputs |-> <<strong_false.output, nmos[i].source>>]
                \o [i \in 1..(num_inputs - 1) |-> <<strong_true.output, pmos[i + 1].source>>]
                \o [i \in 1..(num_inputs - 1) |-> <<pmos[i].drain, pmos[i + 1].drain>>]
                \o [i \in 1..(num_inputs - 1) |-> <<nmos[i + 1].drain, nmos[1].drain>>]
                \o << <<nmos[1].drain, pmos[num_inputs].drain>> >>
                \o [i \in 1..num_inputs |-> <<nmos[i].gate, pmos[i].gate>>]
        IN  [net |-> PinConnects(n, connects),
             node |-> Composite(<< <<Leaf(base + 1)>>, <<Leaf(base + 2)>>,
                                   [i \in 1..num_inputs |-> Leaf(base + 2 + i)],
                                   [i \in 1..num_inputs |->
                                       Leaf(base + 2 + num_inputs + i)] >>),
             input |-> [i \in 1..num_inputs |-> nmos[i].gate],
             output |-> nmos[num_inputs].drain]))

NorGateNew(n0, num_inputs) ==
    Let(n0, LAMBDA m :
    Let(TransistorsNew(
            TransistorsNew(ConstantNewStrong(ConstantNewStrong(m, TRUE), FALSE),
                           TRUE, num_inputs),
            FALSE, num_inputs), LAMBDA n :
        LET base == Len(m.devices)
            strong_true == n.devices[base + 1]
            strong_false == n.devices[base + 2]
            nmos == [i \in 1..num_inputs |-> n.devices[base + 2 + i]]
            pmos == [i \in 1..num_inputs |-> n.devices[base + 2 + num_inputs + i]]
            connects ==
                << <<strong_true.output, pmos[1].source>> >>
                \o [i \in 1..num_inputs |-> <<strong_false.output, nmos[i].source>>]
                \o [i \in 1..(num_inputs - 1) |-> <<pmos[i].drain, pmos[i + 1].source>>]
                \o [i \in 1..(num_inputs - 1) |-> <<nmos[i + 1].drain, nmos[1].drain>>]
                \o << <<nmos[1].drain, pmos[num_inputs].drain>> >>
                \o [i \in 1..num_inputs |-> <<nmos[i].gate, pmos[i].gate>>]
        IN  [net |-> PinConnects(n, connects),
             node |-> Composite(<< <<Leaf(base + 1)>>, <<Leaf(base + 2)>>,
                                   [i \in 1..num_inputs |-> Leaf(base + 2 + i)],
                                   [i \in 1..num_inputs |->
                                       Leaf(base + 2 + num_inputs + i)] >>),
             input |-> [i \in 1..num_inputs |-> nmos[i].gate],
             output |-> nmos[num_inputs].drain]))

\* OrGate::new(num_inputs)
OrGateNew(n0, num_inputs) ==
    Let(NorGateNew(n0, num_inputs), LAMBDA nor_gate :
    Let(NotGateNew(nor_gate.net), LAMBDA not_gate :
        [net |-> PinConnect(not_gate.net, nor_gate.output, not_gate.input),
         node |-> Composite(<< <<nor_gate.node>>, <<not_gate.node>> >>),
         input |-> nor_gate.input,
         output |-> not_gate.output]))

\* test_or_gate_2_input: the gate, two TestPins at HighImpedance, and the
\* two connects.
OrBench ==
    Let(OrGateNew(EmptyNet, 2), LAMBDA or_gate :
    Let(TestPinNew(TestPinNew(or_gate.net, DriveHighImpedance), DriveHighImpedance), LAMBDA n :
        [net |-> PinConnect(PinConnect(n, n.devices[Len(n.devices) - 1].output,
                                       or_gate.input[1]),
                            n.devices[Len(n.devices)].output, or_gate.input[2]),
         node |-> or_gate.node,
         output |-> or_gate.output]))

InitOr ==
    /\ \E bench \in {OrBench} :
          InitNet(bench.net) /\ children = bench.node.containers
    /\ DriverIdle
    /\ AccIdle

NextOr ==
    \/ \E t \in TestPins, new_drive \in DRIVE_VALUES : TestPinSetDrive(t, new_drive)
    \/ TickTransistors
    \/ TickPins

SpecOr == InitOr /\ [][NextOr]_vars

(***************************************************************************)
(* SpecTraversal: a NotGate as NotGate::new leaves it (its four children   *)
(* are all #[child] fields, so the derived map is built from them in the   *)
(* order they are declared), printed and ticked; `history` records, for    *)
(* every traversal of the device tree (one by print, two by tick), the     *)
(* order in which it met the devices.                                      *)
(***************************************************************************)
InitTraversal ==
    /\ \E not_gate \in {NotGateNew(EmptyNet)} :
          InitNet(not_gate.net) /\ children = not_gate.node.containers
    /\ DriverIdle
    /\ AccIdle

\* print(root): the devices in the order their "type:" lines are printed.
PrintCall ==
    /\ CanCall
    /\ \E order \in TraversalOrders(children) :
          history' = Append(history, [op |-> "print", value |-> order])
    /\ UNCHANGED <<netVars, mode, phase, changed, ticks, tickCalls, accVars>>

\* tick(root), its first statement: the traversal of tick_transistors.  The
\* call is made while the record has room for both traversals of the tick.
VisitTransistors ==
    /\ CanCall /\ Len(history) + 1 < MaxCalls
    /\ \E order \in TraversalOrders(children) :
          /\ \E a \in {tick_transistors(Net, TransistorsIn(devices, order))} :
                SetNet(a.net) /\ changed' = a.changed
          /\ history' = Append(history, [op |-> "tick_transistors", value |-> order])
    /\ mode' = "tick" /\ phase' = "pins"
    /\ UNCHANGED <<children, ticks, tickCalls, accVars>>

\* tick(root), its second statement and the return: the traversal of tick_pins.
VisitPins ==
    /\ mode = "tick" /\ phase = "pins" /\ fatal = "none"
    /\ \E order \in TraversalOrders(children) :
          /\ SetNet(tick_pins(Net, TransistorsIn(devices, order)).net)
          /\ history' = Append(history, [op |-> "tick_pins", value |-> order])
    /\ mode' = "idle" /\ phase' = "none" /\ changed' = FALSE
    /\ UNCHANGED <<children, ticks, tickCalls, accVars>>

NextTraversal ==
    \/ PrintCall
    \/ VisitTransistors
    \/ VisitPins

SpecTraversal == InitTraversal /\ [][NextTraversal]_vars

(***************************************************************************)
(* SpecConstant: a Constant of any strength and level, an NMOS Transistor  *)
(* and a TestPin, constructed on their own; pins are then connected, the   *)
(* TestPin is driven and the three devices are ticked and settled, in any  *)
(* order.                                                                  *)
(***************************************************************************)
InitConstant ==
    /\ \E value \in BOOLEAN :
          \E constant \in {ConstantNewStrong(EmptyNet, value),
                           ConstantNewWeak(EmptyNet, value)} :
              InitNet(TestPinNew(TransistorNewNmos(constant), DriveHighImpedance))
    /\ children = << <<Leaf(1)>>, <<Leaf(2)>>, <<Leaf(3)>> >>
    /\ DriverIdle
    /\ AccIdle

NextConstant ==
    \/ \E pin_1, pin_2 \in PinIds : Connect(pin_1, pin_2)
    \/ \E t \in TestPins, new_drive \in DRIVE_VALUES : TestPinSetDrive(t, new_drive)
    \/ TickTransistors
    \/ TickPins
    \/ Settle

SpecConstant == InitConstant /\ [][NextConstant]_vars

(***************************************************************************)
(* SpecValue: the two value conversions, called one after another on any   *)
(* DriveValue and any LogicValue; `history` records each call's argument   *)
(* and what it returned.                                                   *)
(***************************************************************************)
\* LogicValue::from(drive_value)
LogicFromDriveCall(drive_value) ==
    /\ CanCall
    /\ history' = Append(history, [op |-> "LogicValue::from", arg |-> drive_value,
                                   value |-> LogicFromDrive(drive_value)])
    /\ UNCHANGED <<netVars, mode, phase, changed, ticks, tickCalls, accVars>>

\* DriveValue::from(logic_value)
DriveFromLogicCall(logic_value) ==
    /\ CanCall
    /\ history' = Append(history, [op |-> "DriveValue::from", arg |-> logic_value,
                                   value |-> DriveFromLogic(logic_value)])
    /\ UNCHANGED <<netVars, mode, phase, changed, ticks, tickCalls, accVars>>

NextValue ==
    \/ \E drive_value \in DRIVE_VALUES : LogicFromDriveCall(drive_value)
    \/ \E logic_value \in LogicValue : DriveFromLogicCall(logic_value)

SpecValue == InitEmpty /\ [][NextValue]_vars

(***************************************************************************)
(* Gate tests.  A test connects a TestPin at HighImpedance to each input   *)
(* of the gate and then repeats: drive the TestPins, settle the gate, read *)
(* the outputs.  `history` holds the current round: the values driven, and *)
(* after them the settle call once it has returned.                        *)
(***************************************************************************)
\* A round can start: nothing has run yet, or the last round's settle is back.
RoundOver == Idle /\ Len(history) # 1

\* test_pin.set_drive(value) for each TestPin of the sequence ts.
RECURSIVE TestPinSetDrives(_, _, _)
TestPinSetDrives(n, ts, values) ==
    IF ts = <<>> THEN n
    ELSE TestPinSetDrives(TestPinSetDriveOp(n, Head(ts), Head(values)), Tail(ts), Tail(values))

\* The first statements of a round: the TestPins ts are driven with `values`.
DriveInputs(ts, values) ==
    /\ RoundOver
    /\ SetNet(TestPinSetDrives(Net, ts, values))
    /\ history' = <<[op |-> "set_drive", value |-> values]>>
    /\ UNCHANGED <<children, mode, phase, changed, ticks, tickCalls, accVars>>

\* The call of settle(gate) that follows.
SettleGate ==
    /\ Idle /\ Len(history) = 1
    /\ mode' = "settle" /\ phase' = "call"
    /\ ticks' = 0 /\ tickCalls' = 0
    /\ UNCHANGED <<netVars, changed, history, accVars>>

\* The round's inputs, and whether its settle has returned.
Inputs == history[1].value
Settled == Idle /\ Len(history) = 2

(***************************************************************************)
(* SpecNot: test_not_gate.                                                 *)
(***************************************************************************)
\* test_not_gate: the gate, a TestPin at HighImpedance, and the connect.
NotBench ==
    Let(NotGateNew(EmptyNet), LAMBDA not_gate :
    Let(TestPinNew(not_gate.net, DriveHighImpedance), LAMBDA n :
        [net |-> PinConnect(n, n.devices[Len(n.devices)].output, not_gate.input),
         node |-> not_gate.node,
         test_pin |-> Len(n.devices),
         output |-> not_gate.output]))

InitNot ==
    /\ \E bench \in {NotBench} :
          InitNet(bench.net) /\ children = bench.node.containers
    /\ DriverIdle
    /\ AccIdle

NextNot ==
    \/ \E value \in DRIVE_VALUES : DriveInputs(<<NotBench.test_pin>>, <<value>>)
    \/ SettleGate
    \/ StepTransistors
    \/ StepPins
    \/ SettleLoop
    \/ SettleReturn

SpecNot == InitNot /\ [][NextNot]_vars

(***************************************************************************)
(* SpecNor: test_nor_gate_2_input.                                         *)
(***************************************************************************)
\* test_nor_gate_2_input: the gate, two TestPins at HighImpedance, and the
\* two connects.
NorBench ==
    Let(NorGateNew(EmptyNet, 2), LAMBDA nor_gate :
    Let(TestPinNew(TestPinNew(nor_gate.net, DriveHighImpedance), DriveHighImpedance), LAMBDA n :
        [net |-> PinConnect(PinConnect(n, n.devices[Len(n.devices) - 1].output,
                                       nor_gate.input[1]),
                            n.devices[Len(n.devices)].output, nor_gate.input[2]),
         node |-> nor_gate.node,
         test_pins |-> <<Len(n.devices) - 1, Len(n.devices)>>,
         output |-> nor_gate.output]))

InitNor ==
    /\ \E bench \in {NorBench} :
          InitNet(bench.net) /\ children = bench.node.containers
    /\ DriverIdle
    /\ AccIdle

NextNor ==
    \/ \E value_a, value_b \in DRIVE_VALUES :
          DriveInputs(NorBench.test_pins, <<value_a, value_b>>)
    \/ SettleGate
    \/ StepTransistors
    \/ StepPins
    \/ SettleLoop
    \/ SettleReturn

SpecNor == InitNor /\ [][NextNor]_vars

(***************************************************************************)
(* SpecLatch: test_sr_latch, statement by statement.  `history` holds the  *)
(* statements that have returned, so its length is the test's position.    *)
(***************************************************************************)
\* SrLatch::new
SrLatchNew_set_reset_swapped(n0) ==
    Let(NorGateNew(n0, 2), LAMBDA nor_gate_1 :
    Let(NorGateNew(nor_gate_1.net, 2), LAMBDA nor_gate_2 :
        [net |-> PinConnect(
                     PinConnect(nor_gate_2.net, nor_gate_1.output, nor_gate_2.input[1]),
                     nor_gate_2.output, nor_gate_1.input[2]),
         node |-> Composite(<< <<nor_gate_1.node>>, <<nor_gate_2.node>> >>),
         set |-> nor_gate_1.input[1],
         reset |-> nor_gate_2.input[2],
         output |-> nor_gate_1.output,
         output_inverted |-> nor_gate_2.output]))

SrLatchNew(n0) ==
    Let(NorGateNew(n0, 2), LAMBDA nor_gate_1 :
    Let(NorGateNew(nor_gate_1.net, 2), LAMBDA nor_gate_2 :
        [net |-> PinConnect(
                     PinConnect(nor_gate_2.net, nor_gate_1.output, nor_gate_2.input[1]),
                     nor_gate_2.output, nor_gate_1.input[2]),
         node |-> Composite(<< <<nor_gate_1.node>>, <<nor_gate_2.node>> >>),
         set |-> nor_gate_2.input[2],
         reset |-> nor_gate_1.input[1],
         output |-> nor_gate_1.output,
         output_inverted |-> nor_gate_2.output]))

\* test_sr_latch, up to the first settle: weak_true and weak_false are
\* devices 1 and 2, the latch comes next, then test_pin_set and
\* test_pin_reset.
LatchBench ==
    Let(SrLatchNew(ConstantNewWeak(ConstantNewWeak(EmptyNet, TRUE), FALSE)), LAMBDA latch :
    Let(TestPinNew(TestPinNew(latch.net, Strong(FALSE)), Strong(FALSE)), LAMBDA n :
        LET weak_true == n.devices[1]
            weak_false == n.devices[2]
            test_pin_set == n.devices[Len(n.devices) - 1]
            test_pin_reset == n.devices[Len(n.devices)]
        IN  [net |-> PinConnects(n, << <<weak_false.output, latch.output>>,
                                       <<test_pin_set.output, latch.set>>,
                                       <<weak_true.output, latch.output_inverted>>,
                                       <<test_pin_reset.output, latch.reset>> >>),
             node |-> latch.node,
             test_pin_set |-> Len(n.devices) - 1,
             test_pin_reset |-> Len(n.devices),
             output |-> latch.output,
             output_inverted |-> latch.output_inverted]))

\* The closure of test_sr_latch runs this many times.
LatchCycles == 3

\* The statements of the test after the first settle, in the order of one
\* cycle: which TestPin is driven, with what; a settle follows each.
LatchDrives ==
    << [pin |-> LatchBench.test_pin_set, value |-> Strong(TRUE)],
       [pin |-> LatchBench.test_pin_set, value |-> Strong(FALSE)],
       [pin |-> LatchBench.test_pin_reset, value |-> Strong(TRUE)],
       [pin |-> LatchBench.test_pin_reset, value |-> Strong(FALSE)] >>

\* The statement that runs after `done` statements: a settle (0), or the
\* number of the set_drive in LatchDrives.
LatchStatement(done) ==
    IF done % 2 = 0 THEN 0 ELSE (((done - 1) \div 2) % 4) + 1

InitLatch ==
    /\ \E bench \in {LatchBench} :
          InitNet(bench.net) /\ children = bench.node.containers
    /\ DriverIdle
    /\ AccIdle

LatchRunning == Idle /\ Len(history) < 1 + 8 * LatchCycles

\* test_pin_set.set_drive(..) or test_pin_reset.set_drive(..)
LatchSetDrive ==
    /\ LatchRunning /\ LatchStatement(Len(history)) # 0
    /\ \E d \in {LatchDrives[LatchStatement(Len(history))]} :
          /\ SetNet(TestPinSetDriveOp(Net, d.pin, d.value))
          /\ history' = Append(history, [op |-> "set_drive", value |-> d.value])
    /\ UNCHANGED <<children, mode, phase, changed, ticks, tickCalls, accVars>>

\* settle(&mut latch)
LatchSettle ==
    /\ LatchRunning /\ LatchStatement(Len(history)) = 0
    /\ mode' = "settle" /\ phase' = "call"
    /\ ticks' = 0 /\ tickCalls' = 0
    /\ UNCHANGED <<netVars, changed, history, accVars>>

NextLatch ==
    \/ LatchSetDrive
    \/ LatchSettle
    \/ StepTransistors
    \/ StepPins
    \/ SettleLoop
    \/ SettleReturn

SpecLatch == InitLatch /\ [][NextLatch]_vars

(***************************************************************************)
(* SpecLoop: two NotGates in a loop: a BufferGate whose output is          *)
(* connected back to its input, with a TestPin at HighImpedance on that    *)
(* wire; the TestPin is driven and the gate is ticked and settled call by  *)
(* call.                                                                   *)
(***************************************************************************)
LoopBench ==
    Let(BufferGateNew(EmptyNet), LAMBDA buffer_gate :
    Let(TestPinNew(PinConnect(buffer_gate.net, buffer_gate.output, buffer_gate.input),
                   DriveHighImpedance), LAMBDA n :
        [net |-> PinConnect(n, n.devices[Len(n.devices)].output, buffer_gate.input),
         node |-> buffer_gate.node,
         test_pin |-> Len(n.devices),
         input |-> buffer_gate.input,
         middle |-> n.devices[3].drain]))

InitLoop ==
    /\ \E bench \in {LoopBench} :
          InitNet(bench.net) /\ children = bench.node.containers
    /\ DriverIdle
    /\ AccIdle

\* A run on the loop is a sequence of at most MaxLoopCalls calls of set_drive,
\* tick and settle.
LoopCanCall == Idle /\ Len(history) < MaxLoopCalls

LoopDrive(new_drive) ==
    /\ LoopCanCall
    /\ SetNet(TestPinSetDriveOp(Net, LoopBench.test_pin, new_drive))
    /\ history' = Append(history, [op |-> "set_drive", value |-> new_drive])
    /\ UNCHANGED <<children, mode, phase, changed, ticks, tickCalls, accVars>>

LoopTick ==
    /\ LoopCanCall
    /\ mode' = "tick" /\ phase' = "call"
    /\ UNCHANGED <<netVars, changed, ticks, tickCalls, history, accVars>>

LoopSettle ==
    /\ LoopCanCall
    /\ mode' = "settle" /\ phase' = "call"
    /\ ticks' = 0 /\ tickCalls' = 0
    /\ UNCHANGED <<netVars, changed, history, accVars>>

NextLoop ==
    \/ \E new_drive \in DRIVE_VALUES : LoopDrive(new_drive)
    \/ LoopTick
    \/ LoopSettle
    \/ StepTransistors
    \/ StepPins
    \/ TickReturn
    \/ SettleLoop
    \/ SettleReturn

SpecLoop == InitLoop /\ [][NextLoop]_vars

(***************************************************************************)
(* The adders.  The repository's sources hold no nand_gate.rs; NandGate is *)
(* taken to be the CMOS dual of NorGate: the nmos Vec in series from       *)
(* strong_false to the output, the pmos Vec in parallel from strong_true   *)
(* to the output.                                                          *)
(***************************************************************************)
\* NandGate::new(num_inputs), for two inputs or more, on net n0: strong_true,
\* strong_false, the nmos Vec and the pmos Vec are the devices after those
\* of n0, in this order.
NandGateNew(n0, num_inputs) ==
    Let(n0, LAMBDA m :
    Let(TransistorsNew(
            TransistorsNew(ConstantNewStrong(ConstantNewStrong(m, TRUE), FALSE),
                           TRUE, num_inputs),
            FALSE, num_inputs), LAMBDA n :
        LET base == Len(m.devices)
            strong_true == n.devices[base + 1]
            strong_false == n.devices[base + 2]
            nmos == [i \in 1..num_inputs |-> n.devices[base + 2 + i]]
            pmos == [i \in 1..num_inputs |-> n.devices[base + 2 + num_inputs + i]]
            connects ==
                << <<strong_false.output, nmos[1].source>> >>
                \o [i \in 1..num_inputs |-> <<strong_true.output, pmos[i].source>>]
                \o [i \in 1..(num_inputs - 1) |-> <<nmos[i].drain, nmos[i + 1].source>>]
                \o [i \in 1..(num_inputs - 1) |-> <<pmos[i + 1].drain, pmos[1].drain>>]
                \o << <<pmos[1].drain, nmos[num_inputs].drain>> >>
                \o [i \in 1..num_inputs |-> <<nmos[i].gate, pmos[i].gate>>]
        IN  [net |-> PinConnects(n, connects),
             node |-> Composite(<< <<Leaf(base + 1)>>, <<Leaf(base + 2)>>,
                                   [i \in 1..num_inputs |-> Leaf(base + 2 + i)],
                                   [i \in 1..num_inputs |->
                                       Leaf(base + 2 + num_inputs + i)] >>),
             input |-> [i \in 1..num_inputs |-> nmos[i].gate],
             output |-> pmos[num_inputs].drain]))

\* AndGate::new(num_inputs)
AndGateNew(n0, num_inputs) ==
    Let(NandGateNew(n0, num_inputs), LAMBDA nand_gate :
    Let(NotGateNew(nand_gate.net), LAMBDA not_gate :
        [net |-> PinConnect(not_gate.net, nand_gate.output, not_gate.input),
         node |-> Composite(<< <<nand_gate.node>>, <<not_gate.node>> >>),
         input |-> nand_gate.input,
         output |-> not_gate.output]))

\* XorGate::new: the devices after those of n0 are strong_true, strong_false,
\* a_not_gate (four devices), a_nmos, a_inverted_nmos, a_pmos,
\* a_inverted_pmos, b_not_gate (four devices), b_nmos_1, b_nmos_2, b_pmos and
\* b_inverted_pmos.
XorGateNew_b_gates_swapped(n0) ==
    Let(n0, LAMBDA m :
    Let(NotGateNew(ConstantNewStrong(ConstantNewStrong(m, TRUE), FALSE)), LAMBDA a_not_gate :
    Let(NotGateNew(TransistorNewPmos(TransistorNewPmos(TransistorNewNmos(
            TransistorNewNmos(a_not_gate.net))))), LAMBDA b_not_gate :
    Let(TransistorNewPmos(TransistorNewPmos(TransistorNewNmos(
            TransistorNewNmos(b_not_gate.net)))), LAMBDA n :
        LET base == Len(m.devices)
            strong_true == n.devices[base + 1]
            strong_false == n.devices[base + 2]
            a_nmos == n.devices[base + 7]
            a_inverted_nmos == n.devices[base + 8]
            a_pmos == n.devices[base + 9]
            a_inverted_pmos == n.devices[base + 10]
            b_nmos_1 == n.devices[base + 15]
            b_nmos_2 == n.devices[base + 16]
            b_pmos == n.devices[base + 17]
            b_inverted_pmos == n.devices[base + 18]
            a_input == a_not_gate.input
            b_input == b_not_gate.input
            connects ==
                << <<strong_true.output, a_pmos.source>>,
                   <<a_pmos.drain, b_inverted_pmos.source>>,
                   <<b_inverted_pmos.drain, a_nmos.drain>>,
                   <<a_nmos.source, b_nmos_1.drain>>,
                   <<b_nmos_1.source, strong_false.output>>,
                   <<a_pmos.gate, a_not_gate.output>>,
                   <<b_inverted_pmos.gate, b_not_gate.output>>,
                   <<a_nmos.gate, a_input>>,
                   <<b_nmos_1.gate, b_input>>,
                   <<strong_true.output, a_inverted_pmos.source>>,
                   <<a_inverted_pmos.drain, b_pmos.source>>,
                   <<b_pmos.drain, a_inverted_nmos.drain>>,
                   <<a_inverted_nmos.source, b_nmos_2.drain>>,
                   <<b_nmos_2.source, strong_false.output>>,
                   <<a_inverted_pmos.gate, a_input>>,
                   <<b_pmos.gate, b_input>>,
                   <<a_inverted_nmos.gate, a_not_gate.output>>,
                   <<b_nmos_2.gate, b_not_gate.output>>,
                   <<a_nmos.drain, a_inverted_nmos.drain>> >>
        IN  [net |-> PinConnects(n, connects),
             node |-> Composite(<< <<Leaf(base + 1)>>, <<Leaf(base + 2)>>,
                                   <<a_not_gate.node>>,
                                   <<Leaf(base + 7)>>, <<Leaf(base + 8)>>,
                                   <<Leaf(base + 9)>>, <<Leaf(base + 10)>>,
                                   <<b_not_gate.node>>,
                                   <<Leaf(base + 15)>>, <<Leaf(base + 16)>>,
                                   <<Leaf(base + 17)>>, <<Leaf(base + 18)>> >>),
             a_input |-> a_input,
             b_input |-> b_input,
             output |-> a_nmos.drain]))))

XorGateNew(n0) ==
    Let(n0, LAMBDA m :
    Let(NotGateNew(ConstantNewStrong(ConstantNewStrong(m, TRUE), FALSE)), LAMBDA a_not_gate :
    Let(NotGateNew(TransistorNewPmos(TransistorNewPmos(TransistorNewNmos(
            TransistorNewNmos(a_not_gate.net))))), LAMBDA b_not_gate :
    Let(TransistorNewPmos(TransistorNewPmos(TransistorNewNmos(
            TransistorNewNmos(b_not_gate.net)))), LAMBDA n :
        LET base == Len(m.devices)
            strong_true == n.devices[base + 1]
            strong_false == n.devices[base + 2]
            a_nmos == n.devices[base + 7]
            a_inverted_nmos == n.devices[base + 8]
            a_pmos == n.devices[base + 9]
            a_inverted_pmos == n.devices[base + 10]
            b_nmos_1 == n.devices[base + 15]
            b_nmos_2 == n.devices[base + 16]
            b_pmos == n.devices[base + 17]
            b_inverted_pmos == n.devices[base + 18]
            a_input == a_not_gate.input
            b_input == b_not_gate.input
            connects ==
                << <<strong_true.output, a_pmos.source>>,
                   <<a_pmos.drain, b_inverted_pmos.source>>,
                   <<b_inverted_pmos.drain, a_nmos.drain>>,
                   <<a_nmos.source, b_nmos_1.drain>>,
                   <<b_nmos_1.source, strong_false.output>>,
                   <<a_pmos.gate, a_not_gate.output>>,
                   <<b_inverted_pmos.gate, b_input>>,
                   <<a_nmos.gate, a_input>>,
                   <<b_nmos_1.gate, b_input>>,
                   <<strong_true.output, a_inverted_pmos.source>>,
                   <<a_inverted_pmos.drain, b_pmos.source>>,
                   <<b_pmos.drain, a_inverted_nmos.drain>>,
                   <<a_inverted_nmos.source, b_nmos_2.drain>>,
                   <<b_nmos_2.source, strong_false.output>>,
                   <<a_inverted_pmos.gate, a_input>>,
                   <<b_pmos.gate, b_not_gate.output>>,
                   <<a_inverted_nmos.gate, a_not_gate.output>>,
                   <<b_nmos_2.gate, b_not_gate.output>>,
                   <<a_nmos.drain, a_inverted_nmos.drain>> >>
        IN  [net |-> PinConnects(n, connects),
             node |-> Composite(<< <<Leaf(base + 1)>>, <<Leaf(base + 2)>>,
                                   <<a_not_gate.node>>,
                                   <<Leaf(base + 7)>>, <<Leaf(base + 8)>>,
                                   <<Leaf(base + 9)>>, <<Leaf(base + 10)>>,
                                   <<b_not_gate.node>>,
                                   <<Leaf(base + 15)>>, <<Leaf(base + 16)>>,
                                   <<Leaf(base + 17)>>, <<Leaf(base + 18)>> >>),
             a_input |-> a_input,
             b_input |-> b_input,
             output |-> a_nmos.drain]))))

\* HalfAdder::new
HalfAdderNew(n0) ==
    Let(AndGateNew(n0, 2), LAMBDA and_gate :
    Let(XorGateNew(and_gate.net), LAMBDA xor_gate :
        [net |-> PinConnect(PinConnect(xor_gate.net, and_gate.input[1], xor_gate.a_input),
                            and_gate.input[2], xor_gate.b_input),
         node |-> Composite(<< <<and_gate.node>>, <<xor_gate.node>> >>),
         a |-> and_gate.input[1],
         b |-> and_gate.input[2],
         sum |-> xor_gate.output,
         carry |-> and_gate.output]))

FullAdderNew_input_carry_dropped(n0) ==
    Let(HalfAdderNew(n0), LAMBDA input_half_adder :
    Let(HalfAdderNew(input_half_adder.net), LAMBDA carry_half_adder :
    Let(OrGateNew(carry_half_adder.net, 2), LAMBDA or_gate :
        [net |-> PinConnects(or_gate.net,
                    << <<input_half_adder.sum, carry_half_adder.b>>,
                       <<carry_half_adder.carry, or_gate.input[1]>>,
                       <<input_half_adder.carry, or_gate.input[2]>> >>),
         node |-> Composite(<< <<input_half_adder.node>>, <<carry_half_adder.node>>,
                               <<or_gate.node>> >>),
         a |-> input_half_adder.a,
         b |-> input_half_adder.b,
         carry_in |-> carry_half_adder.a,
         sum |-> carry_half_adder.sum,
         carry |-> carry_half_adder.carry])))

\* FullAdder::new
FullAdderNew(n0) ==
    Let(HalfAdderNew(n0), LAMBDA input_half_adder :
    Let(HalfAdderNew(input_half_adder.net), LAMBDA carry_half_adder :
    Let(OrGateNew(carry_half_adder.net, 2), LAMBDA or_gate :
        [net |-> PinConnects(or_gate.net,
                    << <<input_half_adder.sum, carry_half_adder.b>>,
                       <<carry_half_adder.carry, or_gate.input[1]>>,
                       <<input_half_adder.carry, or_gate.input[2]>> >>),
         node |-> Composite(<< <<input_half_adder.node>>, <<carry_half_adder.node>>,
                               <<or_gate.node>> >>),
         a |-> input_half_adder.a,
         b |-> input_half_adder.b,
         carry_in |-> carry_half_adder.a,
         sum |-> carry_half_adder.sum,
         carry |-> or_gate.output])))

\* (0..width).map(|_| FullAdder::new()).collect(): the net afterwards and the
\* adders, after those of `adders`.
RECURSIVE FullAddersNew(_, _, _)
FullAddersNew(n, adders, width) ==
    IF width = 0 THEN [net |-> n, adders |-> adders]
    ELSE Let(FullAdderNew(n), LAMBDA full_adder :
             FullAddersNew(full_adder.net,
                           Append(adders, [a |-> full_adder.a, b |-> full_adder.b,
                                           carry_in |-> full_adder.carry_in,
                                           sum |-> full_adder.sum,
                                           carry |-> full_adder.carry,
                                           node |-> full_adder.node]),
                           width - 1))

\* RippleCarryAdder::new(width), for a width of one or more.
RippleCarryAdderNew(n0, width) ==
    Let(n0, LAMBDA m :
    Let(FullAddersNew(ConstantNewStrong(m, FALSE), <<>>, width), LAMBDA made :
        LET adders == made.adders
            strong_false == made.net.devices[Len(m.devices) + 1]
            connects ==
                << <<strong_false.output, adders[1].carry_in>> >>
                \o [i \in 1..(width - 1) |-> <<adders[i].carry, adders[i + 1].carry_in>>]
        IN  [net |-> PinConnects(made.net, connects),
             node |-> Composite(<< <<Leaf(Len(m.devices) + 1)>>,
                                   [i \in 1..width |-> adders[i].node] >>),
             input_a |-> [i \in 1..width |-> adders[i].a],
             input_b |-> [i \in 1..width |-> adders[i].b],
             sum |-> [i \in 1..width |-> adders[i].sum],
             overflow |-> adders[width].carry]))

(***************************************************************************)
(* SpecAdder: test_ripple_carry_adder_n_bit for a width of 1..WidestAdder,    *)
(* statement by statement: every pair (value_a, value_b) in the order of   *)
(* the two loops, set_pins on either Vec of TestPins, then settle, which   *)
(* is followed tick by tick for at most MaxAdderTicks counted ticks.  A    *)
(* traversal that cannot panic gives one outcome in every order and is     *)
(* computed in one; `history` holds the statements made.                   *)
(***************************************************************************)
\* (0..width).map(|_| TestPin::new(DriveValue::HighImpedance)) and the
\* connects to `inputs` that follow.
RECURSIVE TestPinsConnected(_, _, _)
TestPinsConnected(n, inputs, made) ==
    IF Len(made) = Len(inputs)
    THEN PinConnects(n, [i \in DOMAIN inputs |-> <<n.devices[made[i]].output, inputs[i]>>])
    ELSE Let(TestPinNew(n, DriveHighImpedance), LAMBDA m :
             TestPinsConnected(m, inputs, Append(made, Len(m.devices))))

\* The setup of the test: the adder, test_pins_a and test_pins_b.
AdderBench(width) ==
    Let(RippleCarryAdderNew(EmptyNet, width), LAMBDA adder :
    Let(TestPinsConnected(adder.net, adder.input_a, <<>>), LAMBDA n :
        LET last == Len(n.devices)
        IN  [net |-> TestPinsConnected(n, adder.input_b, <<>>),
             node |-> adder.node,
             test_pins_a |-> [i \in 1..width |-> last - width + i],
             test_pins_b |-> [i \in 1..width |-> last + i],
             sum |-> adder.sum,
             overflow |-> adder.overflow]))

\* The sum pins and the overflow pin of the adder of each width.
AdderPins ==
    [width \in 1..WidestAdder |->
        Let(AdderBench(width), LAMBDA bench :
            [sum |-> bench.sum, overflow |-> bench.overflow])]

InitAdder ==
    /\ \E width \in 1..WidestAdder :
          \E bench \in {AdderBench(width)} :
              InitNet(bench.net) /\ children = bench.node.containers
    /\ DriverIdle
    /\ AccIdle

\* The width of the adder under test, and its test pins and output pins.
Width == Cardinality(TestPins) \div 2
AdderTestPinsA == [i \in 1..Width |-> Len(devices) - 2 * Width + i]
AdderTestPinsB == [i \in 1..Width |-> Len(devices) - Width + i]

\* set_pins: the drives of the pins for `value`, least significant bit first.
PinDrives(width, value) ==
    [index \in 1..width |-> Strong((value \div (2 ^ (index - 1))) % 2 = 1)]

\* The pair of the loops' iteration that follows `done` statements.
ValueA(done) == (done \div 2) \div (2 ^ Width)
ValueB(done) == (done \div 2) % (2 ^ Width)

AdderRunning == Idle /\ Len(history) < 2 * (2 ^ Width) * (2 ^ Width)

\* set_pins(&mut test_pins_a, value_a); set_pins(&mut test_pins_b, value_b)
AdderSetPins ==
    /\ AdderRunning /\ Len(history) % 2 = 0
    /\ SetNet(TestPinSetDrives(
                  TestPinSetDrives(Net, AdderTestPinsA,
                                   PinDrives(Width, ValueA(Len(history)))),
                  AdderTestPinsB, PinDrives(Width, ValueB(Len(history)))))
    /\ history' = Append(history, [op |-> "set_pins", value |-> ValueA(Len(history)),
                                   value_b |-> ValueB(Len(history))])
    /\ UNCHANGED <<children, mode, phase, changed, ticks, tickCalls, accVars>>

\* settle(&mut adder)
AdderSettle ==
    /\ AdderRunning /\ Len(history) % 2 = 1
    /\ mode' = "settle" /\ phase' = "call"
    /\ ticks' = 0 /\ tickCalls' = 0
    /\ UNCHANGED <<netVars, changed, history, accVars>>

\* No drain of net n has a drive pending.  tick_transistors calls set_drive
\* on drains only, and set_drive panics only on a pin with a drive pending;
\* a Transistor::tick reads the values of the wires of its gate and source
\* and its own flag, and writes its flag and the pending drive of its drain,
\* none of which another Transistor::tick reads.  So without a pending
\* drain every order of the traversal gives the same net and result.
DrainsFree(n) ==
    \A t \in DOMAIN n.devices :
        n.devices[t].type = "Transistor" => n.pins[n.devices[t].drain].next_drive = None

\* Every wire of net n counts the current drives of the Transistor pins on
\* it that have a drive pending.  Pin::tick panics only in update, when it
\* decrements a zero counter, and the counters after a run of updates do
\* not depend on their order.  So with the pending pins counted, every
\* order of the traversal gives the same net and result.
PendingCounted(n) ==
    LET transistor_pins ==
            UNION {{n.devices[t].drain, n.devices[t].gate, n.devices[t].source} :
                      t \in {u \in DOMAIN n.devices : n.devices[u].type = "Transistor"}}
        pending == {p \in transistor_pins : n.pins[p].next_drive # None}
    IN  \A p \in pending :
            n.pins[p].current_drive # DriveHighImpedance =>
                n.wires[n.pins[p].wire].drive_value_accumulator[
                    CounterOf(n.pins[p].current_drive)]
                  >= Cardinality({q \in pending :
                                     /\ n.pins[q].wire = n.pins[p].wire
                                     /\ n.pins[q].current_drive = n.pins[p].current_drive})

\* tick_transistors and tick_pins over a long order, evaluated one half of
\* the order after the other.
RECURSIVE tick_transistors_halves(_, _)
tick_transistors_halves(n, order) ==
    IF Len(order) <= 4 THEN tick_transistors(n, order)
    ELSE Let(tick_transistors_halves(n, SubSeq(order, 1, Len(order) \div 2)), LAMBDA first :
         Let(tick_transistors_halves(first.net,
                                     SubSeq(order, Len(order) \div 2 + 1, Len(order))),
             LAMBDA second :
                 [net |-> second.net, changed |-> first.changed \/ second.changed]))

RECURSIVE tick_pins_halves(_, _)
tick_pins_halves(n, order) ==
    IF Len(order) <= 4 THEN tick_pins(n, order)
    ELSE Let(tick_pins_halves(n, SubSeq(order, 1, Len(order) \div 2)), LAMBDA first :
         Let(tick_pins_halves(first.net,
                              SubSeq(order, Len(order) \div 2 + 1, Len(order))),
             LAMBDA second :
                 [net |-> second.net, changed |-> first.changed \/ second.changed]))

\* tick: changed = false; changed |= tick_transistors(device).
AdderStepTransistors ==
    /\ mode = "settle" /\ phase = "call" /\ fatal = "none"
    /\ \E a \in (IF DrainsFree(Net)
                 THEN {tick_transistors_halves(
                           Net, TransistorsIn(devices, InsertionOrder(children)))}
                 ELSE {tick_transistors(Net, orderA) :
                          orderA \in TransistorOrders(devices, children)}) :
          SetNet(a.net) /\ changed' = a.changed
    /\ phase' = "pins"
    /\ tickCalls' = tickCalls + 1
    /\ UNCHANGED <<children, mode, ticks, history, accVars>>

\* tick: changed |= tick_pins(device).
AdderStepPins ==
    /\ mode = "settle" /\ phase = "pins" /\ fatal = "none"
    /\ \E b \in (IF PendingCounted(Net)
                 THEN {tick_pins_halves(
                           Net, TransistorsIn(devices, InsertionOrder(children)))}
                 ELSE {tick_pins(Net, orderB) :
                          orderB \in TransistorOrders(devices, children)}) :
          SetNet(b.net) /\ changed' = (changed \/ b.changed)
    /\ phase' = "returned"
    /\ UNCHANGED <<children, mode, ticks, tickCalls, history, accVars>>

\* settle: tick returned true; ticks += 1 and the loop calls tick again.
AdderSettleLoop ==
    /\ mode = "settle" /\ phase = "returned" /\ fatal = "none"
    /\ SettleContinues(changed)
    /\ ticks < MaxAdderTicks
    /\ ticks' = IncrementTicks(ticks)
    /\ phase' = "call" /\ changed' = FALSE
    /\ UNCHANGED <<netVars, mode, tickCalls, history, accVars>>

NextAdder ==
    \/ AdderSetPins
    \/ AdderSettle
    \/ AdderStepTransistors
    \/ AdderStepPins
    \/ AdderSettleLoop
    \/ SettleReturn

SpecAdder == InitAdder /\ [][NextAdder]_vars

(***************************************************************************)
(* SpecXor: test_xor_gate, with the traversals of SpecAdder; a settle run  *)
(* is followed for at most MaxAdderTicks counted ticks.                    *)
(***************************************************************************)
\* test_xor_gate: the gate, two TestPins at HighImpedance, and the two
\* connects.
XorBench ==
    Let(XorGateNew(EmptyNet), LAMBDA xor_gate :
    Let(TestPinNew(TestPinNew(xor_gate.net, DriveHighImpedance), DriveHighImpedance), LAMBDA n :
        [net |-> PinConnect(PinConnect(n, n.devices[Len(n.devices) - 1].output,
                                       xor_gate.a_input),
                            n.devices[Len(n.devices)].output, xor_gate.b_input),
         node |-> xor_gate.node,
         test_pins |-> <<Len(n.devices) - 1, Len(n.devices)>>,
         output |-> xor_gate.output]))

InitXor ==
    /\ \E bench \in {XorBench} :
          InitNet(bench.net) /\ children = bench.node.containers
    /\ DriverIdle
    /\ AccIdle

NextXor ==
    \/ \E value_a, value_b \in DRIVE_VALUES :
          DriveInputs(XorBench.test_pins, <<value_a, value_b>>)
    \/ SettleGate
    \/ AdderStepTransistors
    \/ AdderStepPins
    \/ AdderSettleLoop
    \/ SettleReturn

SpecXor == InitXor /\ [][NextXor]_vars

(***************************************************************************)
(* SpecTriState: test_tri_state_buffer_gate, with the traversals and the   *)
(* settle runs of SpecXor.                                                 *)
(***************************************************************************)
\* TriStateBufferGate::new: the devices after those of n0 are strong_true,
\* strong_false, enable_not_gate (four devices), enable_nmos, enable_pmos,
\* input_not_gate (four devices), input_nmos and input_pmos.
TriStateBufferGateNew_enable_inverted(n0) ==
    Let(n0, LAMBDA m :
    Let(NotGateNew(ConstantNewStrong(ConstantNewStrong(m, TRUE), FALSE)), LAMBDA enable_not_gate :
    Let(NotGateNew(TransistorNewPmos(TransistorNewNmos(enable_not_gate.net))),
        LAMBDA input_not_gate :
    Let(TransistorNewPmos(TransistorNewNmos(input_not_gate.net)), LAMBDA n :
        LET base == Len(m.devices)
            strong_true == n.devices[base + 1]
            strong_false == n.devices[base + 2]
            enable_nmos == n.devices[base + 7]
            enable_pmos == n.devices[base + 8]
            input_nmos == n.devices[base + 13]
            input_pmos == n.devices[base + 14]
            connects ==
                << <<strong_true.output, enable_pmos.source>>,
                   <<strong_false.output, enable_nmos.source>>,
                   <<enable_pmos.drain, input_pmos.source>>,
                   <<enable_nmos.drain, input_nmos.source>>,
                   <<input_nmos.drain, input_pmos.drain>>,
                   <<input_not_gate.output, input_nmos.gate>>,
                   <<input_not_gate.output, input_pmos.gate>>,
                   <<enable_not_gate.output, enable_pmos.gate>>,
                   <<enable_not_gate.input, enable_nmos.gate>> >>
        IN  [net |-> PinConnects(n, connects),
             node |-> Composite(<< <<Leaf(base + 1)>>, <<Leaf(base + 2)>>,
                                   <<enable_not_gate.node>>,
                                   <<Leaf(base + 7)>>, <<Leaf(base + 8)>>,
                                   <<input_not_gate.node>>,
                                   <<Leaf(base + 13)>>, <<Leaf(base + 14)>> >>),
             enable |-> enable_not_gate.input,
             input |-> input_not_gate.input,
             output |-> input_nmos.drain]))))

TriStateBufferGateNew(n0) ==
    Let(n0, LAMBDA m :
    Let(NotGateNew(ConstantNewStrong(ConstantNewStrong(m, TRUE), FALSE)), LAMBDA enable_not_gate :
    Let(NotGateNew(TransistorNewPmos(TransistorNewNmos(enable_not_gate.net))),
        LAMBDA input_not_gate :
    Let(TransistorNewPmos(TransistorNewNmos(input_not_gate.net)), LAMBDA n :
        LET base == Len(m.devices)
            strong_true == n.devices[base + 1]
            strong_false == n.devices[base + 2]
            enable_nmos == n.devices[base + 7]
            enable_pmos == n.devices[base + 8]
            input_nmos == n.devices[base + 13]
            input_pmos == n.devices[base + 14]
            connects ==
                << <<strong_true.output, enable_pmos.source>>,
                   <<strong_false.output, enable_nmos.source>>,
                   <<enable_pmos.drain, input_pmos.source>>,
                   <<enable_nmos.drain, input_nmos.source>>,
                   <<input_nmos.drain, input_pmos.drain>>,
                   <<input_not_gate.output, input_nmos.gate>>,
                   <<input_not_gate.output, input_pmos.gate>>,
                   <<enable_not_gate.input, enable_pmos.gate>>,
                   <<enable_not_gate.output, enable_nmos.gate>> >>
        IN  [net |-> PinConnects(n, connects),
             node |-> Composite(<< <<Leaf(base + 1)>>, <<Leaf(base + 2)>>,
                                   <<enable_not_gate.node>>,
                                   <<Leaf(base + 7)>>, <<Leaf(base + 8)>>,
                                   <<input_not_gate.node>>,
                                   <<Leaf(base + 13)>>, <<Leaf(base + 14)>> >>),
             enable |-> enable_not_gate.input,
             input |-> input_not_gate.input,
             output |-> input_nmos.drain]))))

\* test_tri_state_buffer_gate: the gate, two TestPins at HighImpedance, and
\* the two connects.
TriStateBench ==
    Let(TriStateBufferGateNew(EmptyNet), LAMBDA buffer_gate :
    Let(TestPinNew(TestPinNew(buffer_gate.net, DriveHighImpedance), DriveHighImpedance),
        LAMBDA n :
        [net |-> PinConnect(PinConnect(n, n.devices[Len(n.devices) - 1].output,
                                       buffer_gate.enable),
                            n.devices[Len(n.devices)].output, buffer_gate.input),
         node |-> buffer_gate.node,
         test_pins |-> <<Len(n.devices) - 1, Len(n.devices)>>,
         output |-> buffer_gate.output]))

InitTriState ==
    /\ \E bench \in {TriStateBench} :
          InitNet(bench.net) /\ children = bench.node.containers
    /\ DriverIdle
    /\ AccIdle

NextTriState ==
    \/ \E value_enable, value_input \in DRIVE_VALUES :
          DriveInputs(TriStateBench.test_pins, <<value_enable, value_input>>)
    \/ SettleGate
    \/ AdderStepTransistors
    \/ AdderStepPins
    \/ AdderSettleLoop
    \/ SettleReturn

SpecTriState == InitTriState /\ [][NextTriState]_vars

(***************************************************************************)
(* SpecInitialPin: test_wire_set_initial_pin_multiple and                  *)
(* test_pin_initial_value.  Pins are created with any initial drive, a     *)
(* Wire is created on its own (it has the id 0, which no pin owns), and    *)
(* set_initial_pin is called on any wire with any pin, in any order.       *)
(***************************************************************************)
\* Pin::new(initial_value)
NewInitialPin(initial_value) ==
    /\ fatal = "none"
    /\ NewPin(initial_value)

\* let wire = Wire::new()
NewWire ==
    /\ fatal = "none"
    /\ 0 \notin DOMAIN wires
    /\ wires' = [w \in DOMAIN wires \cup {0} |-> IF w = 0 THEN WireNew ELSE wires[w]]
    /\ UNCHANGED <<pins, devices, fatal, children, drvVars, accVars>>

\* wire.borrow_mut().set_initial_pin(&pin)
SetInitialPin(w, pin) ==
    /\ fatal = "none"
    /\ SetNet(set_initial_pin(Net, w, pin))
    /\ UNCHANGED <<children, drvVars, accVars>>

NextInitialPin ==
    \/ \E initial_value \in DRIVE_VALUES : NewInitialPin(initial_value)
    \/ NewWire
    \/ \E w \in DOMAIN wires, pin \in PinIds : SetInitialPin(w, pin)

SpecInitialPin == InitEmpty /\ [][NextInitialPin]_vars

(***************************************************************************)
(* Properties                                                              *)
(***************************************************************************)
\* The pins a wire lists, with their positions in its list.
Listed(ws) == UNION {{<<w, i>> : i \in DOMAIN ws[w].pins} : w \in DOMAIN ws}

\* The pins listed on wire w whose current drive is d.
Driving(w, d) == {i \in DOMAIN wires[w].pins : pins[wires[w].pins[i]].current_drive = d}

\* C1: in every reachable state each wire's cached value is the value its
\* accumulator resolves to, so every pin reads the resolved value of its
\* wire's accumulator, and two connected pins read the same value.
C1_WireValue ==
    /\ \A w \in DOMAIN wires : wires[w].value = get_value(wires[w].drive_value_accumulator)
    /\ \A p \in PinIds :
          /\ read(Net, p) = get_value(wires[pins[p].wire].drive_value_accumulator)
          /\ \A q \in Range(get_connected_pins(Net, p)) : read(Net, q) = read(Net, p)

\* C1 witness: two connected pins drive Weak(true) and Weak(false), one of
\* them with a drive pending, and both read Error.
C1_Witness ==
    \E p, q \in PinIds :
        /\ q \in Range(get_connected_pins(Net, p))
        /\ get_drive(Net, p) = Weak(TRUE) /\ get_drive(Net, q) = Weak(FALSE)
        /\ pins[q].next_drive # None
        /\ read(Net, p) = LogicError /\ read(Net, q) = LogicError

\* C2: in every reachable state each of the five counters of a wire is the
\* number of pins attached to the wire whose current drive is the counter's
\* value; a pending drive is not counted, and a HighImpedance pin is counted
\* nowhere.
C2_CountersCountDrives ==
    \A w \in DOMAIN wires :
        /\ \A d \in DRIVE_VALUES \ {DriveHighImpedance} :
              wires[w].drive_value_accumulator[CounterOf(d)] = Cardinality(Driving(w, d))
        /\ wires[w].drive_value_accumulator.strong_true
             + wires[w].drive_value_accumulator.strong_false
             + wires[w].drive_value_accumulator.weak_true
             + wires[w].drive_value_accumulator.weak_false
             + wires[w].drive_value_accumulator.error
             = Len(wires[w].pins) - Cardinality(Driving(w, DriveHighImpedance))

\* C2 witness: a wire with two pins, one with a Strong drive pending that no
\* counter has counted, the other driving Weak and counted once.
C2_Witness ==
    \E p, q \in PinIds :
        /\ p # q /\ pins[p].wire = pins[q].wire
        /\ pins[p].next_drive \in {Some(Strong(TRUE)), Some(Strong(FALSE))}
        /\ get_drive(Net, p) = DriveHighImpedance
        /\ get_drive(Net, q) \in {Weak(TRUE), Weak(FALSE)}
        /\ wires[pins[p].wire].drive_value_accumulator
             = [AccNew EXCEPT ![CounterOf(get_drive(Net, q))] = 1]

\* Every pin is listed exactly once, on the wire it refers to, and on no other.
WellAttached ==
    \A p \in PinIds :
        /\ pins[p].wire \in DOMAIN wires
        /\ Cardinality({i \in DOMAIN wires[pins[p].wire].pins :
                           wires[pins[p].wire].pins[i] = p}) = 1
        /\ \A w \in DOMAIN wires : w # pins[p].wire => p \notin Range(wires[w].pins)

\* The pins of the wires a step drops: a connect drops its second pin's wire.
OnDroppedWire == {p \in PinIds : pins[p].wire \notin DOMAIN wires'}

\* A step that is the call pin_1.connect(pin_2) on pins of two wires.
ConnectStep(pin_1, pin_2) ==
    /\ pins[pin_1].wire # pins[pin_2].wire
    /\ pins'[pin_1].wire = pins[pin_1].wire
    /\ Connect(pin_1, pin_2)

\* C3: the wires partition the pins (each pin refers to one wire, that wire
\* lists it exactly once, and no other wire lists it), and a connect of pins
\* on two wires leaves no pin referring to the wire the second pin was on,
\* with as many pins listed in all as before.
C3_WiresPartitionPins ==
    /\ []WellAttached
    /\ [][\A pin_2 \in OnDroppedWire, pin_1 \in PinIds :
            ConnectStep(pin_1, pin_2) =>
                /\ \A p \in DOMAIN pins' : pins'[p].wire # pins[pin_2].wire
                /\ Cardinality(Listed(wires')) = Cardinality(Listed(wires))]_vars

\* C3 witness: connects have merged the pins onto fewer wires, one of them
\* with three pins or more.
C3_Witness ==
    /\ Cardinality(DOMAIN wires) < Len(pins)
    /\ \E w \in DOMAIN wires : Len(wires[w].pins) >= 3

\* The pending drive Transistor::tick leaves on the drain of t when it reads
\* the gate and source wires of the state the step starts in.
PendingFromCurrentValues(t) ==
    LET next == NextDrain(devices[t].activation, read(Net, devices[t].gate),
                          read(Net, devices[t].source), devices[t].error_hysteresis)
    IN  IF next = None THEN None ELSE Some(DriveFromLogic(next[1]))

\* C4: the transistor phase of a tick changes no pin's current drive and no
\* wire's value, and leaves on every drain the pending drive computed from
\* the gate and source values of the moment tick was called, whatever the
\* order of the transistors: a drain changed by one tick is read by the
\* others in the next tick.
C4_TransistorsBeforePins ==
    [][(phase = "call" /\ phase' = "pins") =>
          /\ \A p \in PinIds : pins'[p].current_drive = pins[p].current_drive
          /\ DOMAIN wires' = DOMAIN wires
          /\ \A w \in DOMAIN wires : wires'[w].value = wires[w].value
          /\ \A t \in Transistors :
                pins'[devices[t].drain].next_drive = PendingFromCurrentValues(t)]_vars

\* C4 witness: the transistor phase has run; a drain has a pending drive that
\* differs from what its wire reads, and the gate of another transistor is on
\* that wire.
C4_Witness ==
    /\ phase = "pins"
    /\ \E t, u \in Transistors :
          /\ t # u
          /\ pins[devices[u].gate].wire = pins[devices[t].drain].wire
          /\ pins[devices[t].drain].next_drive # None
          /\ LogicFromDrive(pins[devices[t].drain].next_drive[1]) # read(Net, devices[t].drain)
          /\ read(Net, devices[t].drain) \in {Driven(TRUE), Driven(FALSE)}

\* The drive the specification gives a conducting transistor's drain for
\* what the source wire reads.
Conducted(s) ==
    CASE s = Driven(TRUE) -> Strong(TRUE)
      [] s = Driven(FALSE) -> Strong(FALSE)
      [] s = LogicHighImpedance -> DriveHighImpedance
      [] s = LogicError -> DriveError

\* A step that is Transistor::tick on the transistor under test.
TransistorTickStep == phase = "inputs" /\ phase' = "ticked"

Ambiguous(v) == v \in {LogicHighImpedance, LogicError}

\* C5: a tick of a transistor whose gate reads Driven(b) leaves a pending
\* drain drive at once, whatever the hysteresis flag was: with b the
\* activation level it is Strong(v) for a source reading Driven(v),
\* HighImpedance for HighImpedance and Error for Error; otherwise it is
\* HighImpedance whatever the source reads.  The flag is cleared.
C5_DrivenGate ==
    [][(TransistorTickStep /\ ~Ambiguous(read(Net, UnderTest.gate))) =>
          /\ pins'[UnderTest.drain].next_drive =
                IF read(Net, UnderTest.gate).value = UnderTest.activation
                THEN Some(Conducted(read(Net, UnderTest.source)))
                ELSE Some(DriveHighImpedance)
          /\ ~devices'[1].error_hysteresis]_vars

\* C5 witness: the flag was set by an earlier call, the gate now reads the
\* activation level, the source is driven Weak, and the pending drain drive
\* is the Strong drive of the same value.
C5_Witness ==
    /\ phase = "ticked" /\ Len(history) >= 1
    /\ history[1].gate = DriveHighImpedance
    /\ read(Net, UnderTest.gate) = Driven(UnderTest.activation)
    /\ \E v \in BOOLEAN :
          /\ get_drive(Net, UnderTest.source) = Weak(v)
          /\ pins[UnderTest.drain].next_drive = Some(Strong(v))

\* The gate drives of the calls made so far all read HighImpedance.
FloatingSoFar == \A i \in DOMAIN history : history[i].gate = DriveHighImpedance

\* C6: a tick of a transistor whose gate reads HighImpedance or Error sets
\* the hysteresis flag; if the flag was clear it leaves no pending drive and
\* the drain keeps its drive, and if the flag was set (the tick before was
\* ambiguous too) the pending drive is Error, so the drain is Error after
\* that tick and after every ambiguous tick that follows.  A new transistor
\* with its gate at HighImpedance has its drain at HighImpedance after the
\* first call and at Error after the second, whatever the source.
C6_AmbiguousGate ==
    /\ [](mode = "idle" /\ FloatingSoFar =>
            /\ Len(history) = 1 => get_drive(Net, UnderTest.drain) = DriveHighImpedance
            /\ Len(history) >= 2 => get_drive(Net, UnderTest.drain) = DriveError)
    /\ [][(TransistorTickStep /\ Ambiguous(read(Net, UnderTest.gate))) =>
            /\ devices'[1].error_hysteresis
            /\ pins'[UnderTest.drain].current_drive = pins[UnderTest.drain].current_drive
            /\ pins'[UnderTest.drain].next_drive =
                  IF UnderTest.error_hysteresis THEN Some(DriveError) ELSE None]_vars
    /\ [][(phase = "ticked" /\ phase' = "none") =>
            get_drive(Net', UnderTest.drain) =
                IF pins[UnderTest.drain].next_drive = None
                THEN get_drive(Net, UnderTest.drain)
                ELSE pins[UnderTest.drain].next_drive[1]]_vars

\* C6 witness: the third call in a row with an ambiguous gate has returned,
\* the first of them on a drain that was driven, and the drain is at Error.
C6_Witness ==
    /\ mode = "idle" /\ Len(history) = 3
    /\ history[1].gate = Strong(UnderTest.activation)
    /\ history[2].gate \in {DriveHighImpedance, DriveError}
    /\ history[3].gate \in {DriveHighImpedance, DriveError}
    /\ UnderTest.error_hysteresis
    /\ get_drive(Net, UnderTest.drain) = DriveError

\* C7: when settle has returned, a tick returns false and a second settle
\* returns 0, whichever order the traversals take.
C7_SettleIdempotent ==
    history # <<>> =>
        \A orderA, orderB \in TransistorOrders(devices, children) :
            /\ ~tick(Net, orderA, orderB).changed
            /\ settle(Net, orderA, orderB, 0, MaxSettleTicks).returned
            /\ settle(Net, orderA, orderB, 0, MaxSettleTicks).ticks = 0

\* C7 witness: a settle that needed two ticks or more has returned, on a
\* bench whose transistor is wired to a TestPin.
C7_Witness ==
    /\ history # <<>>
    /\ history[1].value >= 2
    /\ \E t \in Transistors, u \in TestPins :
          pins[devices[t].gate].wire = pins[devices[u].output].wire

\* C8: settle calls tick until a call returns false and returns the number
\* of calls that returned true, one less than the number of calls; on the
\* SimpleDevice with Strong(true) pending on both gate pins it returns 2 and
\* the output reads Driven(false).
C8_SettleCountsTicks ==
    /\ []((mode = "settle" /\ phase = "call") => tickCalls = ticks)
    /\ []((mode = "settle" /\ phase \in {"pins", "returned"}) => tickCalls = ticks + 1)
    /\ [][(mode = "settle" /\ phase = "returned") =>
            IF changed
            THEN mode' = "settle" /\ phase' = "call" /\ ticks' = ticks + 1
            ELSE /\ mode' = "idle"
                 /\ history' = Append(history, [op |-> "settle", value |-> tickCalls - 1])]_vars
    /\ []((/\ mode = "idle" /\ history # <<>> /\ history[1].op = "settle"
           /\ get_drive(Net, SimpleInput[1]) = Strong(TRUE)
           /\ get_drive(Net, SimpleInput[2]) = Strong(TRUE)) =>
             /\ history[1].value = 2
             /\ read(Net, SimpleOutput) = Driven(FALSE))

\* C8 witness: the first call was a settle of the SimpleDevice with
\* Strong(true) on both gate pins; it made three tick calls and returned 2.
C8_Witness ==
    /\ mode = "idle" /\ Len(history) = 1
    /\ history[1].op = "settle" /\ history[1].value = 2
    /\ tickCalls = 3
    /\ get_drive(Net, SimpleInput[1]) = Strong(TRUE)
    /\ get_drive(Net, SimpleInput[2]) = Strong(TRUE)
    /\ read(Net, SimpleOutput) = Driven(FALSE)

\* The priority table of the specification, on the five counters.
PriorityTable(st, sf, wt, wf, e) ==
    IF e > 0 \/ (st > 0 /\ sf > 0) \/ (wt > 0 /\ wf > 0) THEN LogicError
    ELSE IF st > 0 THEN Driven(TRUE)
    ELSE IF sf > 0 THEN Driven(FALSE)
    ELSE IF wt > 0 THEN Driven(TRUE)
    ELSE IF wf > 0 THEN Driven(FALSE)
    ELSE LogicHighImpedance

\* A Strong drive of value b against Weak drives of the other value only.
StrongAgainstWeak(a, b) ==
    /\ a.error = 0
    /\ IF b THEN /\ a.strong_true > 0 /\ a.strong_false = 0
                 /\ a.weak_false > 0 /\ a.weak_true = 0
            ELSE /\ a.strong_false > 0 /\ a.strong_true = 0
                 /\ a.weak_true > 0 /\ a.weak_false = 0

\* C9: whatever the five counters, the value the accumulator resolves to is
\* the one the priority table gives (Error on an Error drive or a short among
\* equals, then Strong true, Strong false, Weak true, Weak false, else
\* HighImpedance), and a Strong drive against an opposing Weak one gives the
\* Strong value, not Error.
C9_PriorityTable ==
    /\ accValue = PriorityTable(acc.strong_true, acc.strong_false, acc.weak_true,
                                acc.weak_false, acc.error)
    /\ \A b \in BOOLEAN :
          StrongAgainstWeak(acc, b) => accValue = Driven(b)

\* C9 witness: a Strong(true) and a Weak(false) drive are counted, nothing
\* else, and the value is the Strong one.
C9_Witness ==
    /\ acc = [AccNew EXCEPT !.strong_true = 1, !.weak_false = 1]
    /\ accValue = Driven(TRUE)

\* C10: after p.connect(q) the lists p.get_connected_pins() and
\* q.get_connected_pins() are the same sequence, p and q are both in it, and
\* every pin of that list has this same list.
C10_ConnectedPinsAgree ==
    [][\A q \in OnDroppedWire, p \in PinIds :
         ConnectStep(p, q) =>
             /\ get_connected_pins(Net', p) = get_connected_pins(Net', q)
             /\ {p, q} \subseteq Range(get_connected_pins(Net', p))
             /\ \A r \in Range(get_connected_pins(Net', p)) :
                   get_connected_pins(Net', r) = get_connected_pins(Net', p)]_vars

\* C10 witness: a later pin was connected to an earlier one, so the shared
\* list is not in order of creation.
C10_Witness ==
    \E p, q \in PinIds :
        /\ p > q
        /\ Len(get_connected_pins(Net, p)) >= 3
        /\ get_connected_pins(Net, p)[1] = p
        /\ get_connected_pins(Net, q) = get_connected_pins(Net, p)

\* C11: connecting two pins that already share a wire, a pin with itself
\* included, succeeds and gives back the same net: every wire's pin list,
\* counters and value and every pin's current and pending drive are as
\* before, so no pin is listed twice and no drive is counted twice; and a
\* connect made a second time changes nothing the first one left.
C11_ConnectIdempotent ==
    fatal = "none" =>
        \A pin_1, pin_2 \in PinIds :
            /\ pins[pin_1].wire = pins[pin_2].wire =>
                  /\ PinConnect(Net, pin_1, pin_2) = Net
                  /\ Cardinality(Range(get_connected_pins(PinConnect(Net, pin_1, pin_2), pin_1)))
                        = Len(get_connected_pins(PinConnect(Net, pin_1, pin_2), pin_1))
            /\ PinConnect(PinConnect(Net, pin_1, pin_2), pin_1, pin_2)
                  = PinConnect(Net, pin_1, pin_2)

\* C11 witness: two pins share a wire that counts a drive of each, and one of
\* them has a pending drive.
C11_Witness ==
    \E p, q \in PinIds :
        /\ fatal = "none" /\ p # q /\ pins[p].wire = pins[q].wire
        /\ get_drive(Net, p) = Strong(TRUE) /\ get_drive(Net, q) = Weak(TRUE)
        /\ pins[p].next_drive = Some(DriveHighImpedance)
        /\ wires[pins[p].wire].drive_value_accumulator
             = [AccNew EXCEPT !.strong_true = 1, !.weak_true = 1]

\* C12: after pin_1.connect(pin_2) on two wires the list of connected pins
\* is the old list of pin_1's wire followed by the old list of pin_2's wire,
\* each in its prior order, from every pin of it; a step that is no connect
\* leaves every list as it was; and connect(1, 2) then connect(2, 3) gives
\* <<1, 2, 3>> from each of the three pins.
C12_JoiningOrder ==
    /\ [][\A pin_2 \in OnDroppedWire, pin_1 \in PinIds :
            ConnectStep(pin_1, pin_2) =>
                \A r \in Range(get_connected_pins(Net, pin_1))
                          \cup Range(get_connected_pins(Net, pin_2)) :
                    get_connected_pins(Net', r) =
                        get_connected_pins(Net, pin_1) \o get_connected_pins(Net, pin_2)]_vars
    /\ [][Len(pins') # Len(pins) =>
            \A p \in PinIds : get_connected_pins(Net', p) = get_connected_pins(Net, p)]_vars
    /\ [][(/\ Len(pins) >= 3
           /\ get_connected_pins(Net, 1) = <<1, 2>>
           /\ get_connected_pins(Net, 3) = <<3>>
           /\ ConnectStep(2, 3)) =>
              \A p \in {1, 2, 3} : get_connected_pins(Net', p) = <<1, 2, 3>>]_vars

\* C12 witness: connect(2, 3) then connect(2, 1) were called, and every pin
\* returns the list in joining order, pin 1 last.
C12_Witness ==
    /\ Len(pins) >= 3
    /\ \A p \in {1, 2, 3} : get_connected_pins(Net, p) = <<2, 3, 1>>

\* C13: a set_drive on a pin without a pending drive leaves the pin's
\* get_drive and the read of every pin of its wire as they were and only
\* records the pending drive; a pin's get_drive changes in no step but a
\* tick of that pin, which makes the pending drive the current one.
C13_SetDriveDeferred ==
    /\ [][\A p \in PinIds, to \in DRIVE_VALUES :
            (pins[p].next_drive = None /\ SetDrive(p, to)) =>
                /\ pins'[p].next_drive = Some(to)
                /\ get_drive(Net', p) = get_drive(Net, p)
                /\ \A q \in Range(get_connected_pins(Net, p)) : read(Net', q) = read(Net, q)]_vars
    /\ [][\A p \in PinIds :
            get_drive(Net', p) # get_drive(Net, p) =>
                /\ Tick(p)
                /\ pins[p].next_drive = Some(get_drive(Net', p))]_vars
    /\ [][\A p \in PinIds :
            (pins[p].next_drive # None /\ Tick(p)) =>
                get_drive(Net', p) = pins[p].next_drive[1]]_vars

\* C13 witness: a pin at HighImpedance has Strong(true) pending; its wire has
\* a second pin, and both still read HighImpedance.
C13_Witness ==
    \E p, q \in PinIds :
        /\ fatal = "none" /\ p # q /\ pins[p].wire = pins[q].wire
        /\ pins[p].next_drive = Some(Strong(TRUE))
        /\ get_drive(Net, p) = DriveHighImpedance
        /\ read(Net, p) = LogicHighImpedance /\ read(Net, q) = LogicHighImpedance

\* C14: in every live state a set_drive on a pin that holds a pending drive
\* is fatal, whatever value it passes, the pending one included, and
\* changes nothing else; a set_drive on a pin without a pending drive is
\* accepted, and so is one made after the pin has been ticked.
C14_DoubleSetDriveFatal ==
    fatal = "none" =>
        \A p \in PinIds, to \in DRIVE_VALUES :
            /\ pins[p].next_drive # None =>
                  /\ PinSetDrive(Net, p, to).fatal = "Drive set multiple times in a single tick."
                  /\ PinSetDrive(Net, p, to).pins = pins
                  /\ PinSetDrive(Net, p, to).wires = wires
            /\ pins[p].next_drive = None => ~Halted(PinSetDrive(Net, p, to))
            /\ ~Halted(PinSetDrive(PinTick(Net, p).net, p, to))

\* C14 witness: the program has halted on a second set_drive, and the pin
\* still holds the pending drive of the first.
C14_Witness ==
    /\ fatal = "Drive set multiple times in a single tick."
    /\ \E p \in PinIds : pins[p].next_drive = Some(Strong(TRUE))

\* The counter named c once a drive `before` is taken out and `after` put in.
Recounted(a, c, before, after) ==
    a[c] - (IF CounterOf(before) = c THEN 1 ELSE 0) + (IF CounterOf(after) = c THEN 1 ELSE 0)

\* What a tick of pin p gives in net `after` with result `returned`, as the
\* specification describes it.
TickAsSpecified(p, after, returned) ==
    LET pin == pins[p]
        w == pin.wire
    IN  /\ after.pins[p].next_drive = None
        /\ after.fatal = "none"
        /\ \A q \in PinIds \ {p} : after.pins[q] = pins[q]
        /\ \A v \in DOMAIN wires \ {w} : after.wires[v] = wires[v]
        /\ after.pins[p].wire = w /\ after.wires[w].pins = wires[w].pins
        /\ IF pin.next_drive # None /\ pin.next_drive[1] # pin.current_drive
           THEN /\ returned
                /\ after.pins[p].current_drive = pin.next_drive[1]
                /\ \A c \in DOMAIN AccNew :
                      after.wires[w].drive_value_accumulator[c] =
                          Recounted(wires[w].drive_value_accumulator, c,
                                    pin.current_drive, pin.next_drive[1])
                /\ after.wires[w].value =
                      PriorityTable(after.wires[w].drive_value_accumulator.strong_true,
                                    after.wires[w].drive_value_accumulator.strong_false,
                                    after.wires[w].drive_value_accumulator.weak_true,
                                    after.wires[w].drive_value_accumulator.weak_false,
                                    after.wires[w].drive_value_accumulator.error)
           ELSE /\ ~returned
                /\ after.pins[p].current_drive = pin.current_drive
                /\ after.wires[w] = wires[w]
                /\ pin.next_drive = None => after.pins = pins

\* C15: in every live state a tick of any pin returns true exactly when the
\* pin holds a pending drive that differs from its current drive, and then
\* the pending drive becomes the current one and the wire's counters and
\* cached value are updated for it; with a pending drive equal to the
\* current one it returns false and the wire is untouched; with no pending
\* drive it returns false and nothing changes; the pin has no pending drive
\* afterwards; and every tick step of the run is such a tick.
C15_PinTick ==
    /\ [](fatal = "none" =>
            \A p \in PinIds : TickAsSpecified(p, PinTick(Net, p).net, PinTick(Net, p).changed))
    /\ [][\A p \in PinIds : Tick(p) => TickAsSpecified(p, Net', changed')]_vars

\* C15 witness: a tick has returned true; the ticked pin now drives
\* Strong(true) against a Weak(false) pin of the same wire, has no pending
\* drive, and the wire reads Driven(true).
C15_Witness ==
    /\ changed /\ fatal = "none"
    /\ \E p, q \in PinIds :
          /\ p # q /\ pins[p].wire = pins[q].wire
          /\ get_drive(Net, p) = Strong(TRUE) /\ pins[p].next_drive = None
          /\ get_drive(Net, q) = Weak(FALSE)
          /\ read(Net, q) = Driven(TRUE)

\* The value a wire resolves to with drive `before` replaced by `after`.
ResolvedWith(a, before, after) ==
    PriorityTable(Recounted(a, "strong_true", before, after),
                  Recounted(a, "strong_false", before, after),
                  Recounted(a, "weak_true", before, after),
                  Recounted(a, "weak_false", before, after),
                  Recounted(a, "error", before, after))

\* C16: whenever TestPin.set_drive(v) can be called, for every TestPin and
\* every v, when it returns, with no tick of the driver, the pin's
\* get_drive is v, every pin of its wire reads the value resolved
\* with v in place of the old drive, the pin holds no pending drive and the
\* program has not halted; a TestPin's pin never holds a pending drive, so
\* set_drive calls in a row never meet the double-set panic.
C16_TestPinImmediate ==
    /\ \A t \in TestPins : pins[devices[t].output].next_drive = None
    /\ fatal # "Drive set multiple times in a single tick."
    /\ Idle =>
          \A t \in TestPins, v \in DRIVE_VALUES :
              Let(TestPinSetDriveOp(Net, t, v), LAMBDA n :
              Let(ResolvedWith(wires[pins[devices[t].output].wire].drive_value_accumulator,
                               get_drive(Net, devices[t].output), v), LAMBDA resolved :
                  /\ n.fatal = "none"
                  /\ get_drive(n, devices[t].output) = v
                  /\ n.pins[devices[t].output].next_drive = None
                  /\ \A q \in Range(get_connected_pins(Net, devices[t].output)) :
                        read(n, q) = resolved))

\* C16 witness: a TestPin on the transistor's gate wire drives Weak(false),
\* and the gate reads Driven(false) with no driver call running.
C16_Witness ==
    /\ Idle /\ phase = "none"
    /\ \E t \in TestPins, u \in Transistors :
          /\ pins[devices[t].output].wire = pins[devices[u].gate].wire
          /\ get_drive(Net, devices[t].output) = Weak(FALSE)
          /\ read(Net, devices[u].gate) = Driven(FALSE)
          /\ ~devices[u].error_hysteresis

\* The drive a tick of the transistor under test computes for its drain when
\* it computes one: from a Driven gate, or Error under hysteresis.
ComputedDrain ==
    IF Ambiguous(read(Net, UnderTest.gate)) THEN DriveError
    ELSE IF read(Net, UnderTest.gate).value = UnderTest.activation
    THEN Conducted(read(Net, UnderTest.source))
    ELSE DriveHighImpedance

\* C17: a tick of a transistor returns true exactly when it engages the
\* hysteresis flag (gate ambiguous, flag clear before) or the drain value it
\* computes differs from the drain pin's current drive; a tick that clears
\* the flag on a Driven gate and computes the drive the drain already has
\* returns false.
C17_TransistorTickResult ==
    [][TransistorTickStep =>
          /\ changed' =
                (\/ Ambiguous(read(Net, UnderTest.gate)) /\ ~UnderTest.error_hysteresis
                 \/ /\ ~(Ambiguous(read(Net, UnderTest.gate)) /\ ~UnderTest.error_hysteresis)
                    /\ ComputedDrain # get_drive(Net, UnderTest.drain))
          /\ (/\ UnderTest.error_hysteresis
              /\ ~Ambiguous(read(Net, UnderTest.gate))
              /\ ComputedDrain = get_drive(Net, UnderTest.drain)) =>
                  ~changed' /\ ~devices'[1].error_hysteresis]_vars

\* C17 witness: the call before had an ambiguous gate and set the flag; this
\* tick read a Driven gate, cleared the flag, computed the drive the drain
\* already had (Strong, from an earlier call) and returned false.
C17_Witness ==
    /\ phase = "ticked" /\ ~changed /\ Len(history) = 2
    /\ history[1].gate = Strong(UnderTest.activation)
    /\ history[2].gate = DriveHighImpedance
    /\ read(Net, UnderTest.gate) = Driven(UnderTest.activation)
    /\ ~UnderTest.error_hysteresis
    /\ get_drive(Net, UnderTest.drain) \in {Strong(TRUE), Strong(FALSE)}
    /\ pins[UnderTest.drain].next_drive = Some(get_drive(Net, UnderTest.drain))

\* C18: in every state reached through pin creation, connect,
\* TestPin.set_drive, tick and settle, no counter is negative, the counter of
\* every pin's current drive is at least one on the pin's wire, so the one
\* decrement a pin can ask for (of its current drive, in its tick) never
\* meets a zero counter, and the program has not halted on a decrement.
C18_CountersNeverNegative ==
    /\ fatal # "attempt to subtract with overflow"
    /\ \A w \in DOMAIN wires, c \in DOMAIN AccNew : wires[w].drive_value_accumulator[c] >= 0
    /\ \A p \in PinIds :
          ~AccUpdatePanics(wires[pins[p].wire].drive_value_accumulator, get_drive(Net, p))

\* C18 witness: a settle that took a tick or more has left the transistor's
\* drain at HighImpedance with the flag clear, on a wire whose counters are
\* all back at zero.
C18_Witness ==
    /\ history # <<>> /\ history[1].value >= 1
    /\ \E u \in Transistors :
          /\ get_drive(Net, devices[u].drain) = DriveHighImpedance
          /\ ~devices[u].error_hysteresis
          /\ Len(get_connected_pins(Net, devices[u].drain)) >= 2
          /\ wires[pins[devices[u].drain].wire].drive_value_accumulator = AccNew

\* The pins of the Constants and TestPins, and those of the Transistors.
SinglePins == {devices[t].output : t \in Singles}
TransistorPins ==
    UNION {{devices[t].drain, devices[t].gate, devices[t].source} : t \in Transistors}

\* C19: no step of tick or settle changes the current drive of a Constant
\* or TestPin pin or applies or clears a pending drive such a pin holds,
\* whether the device is in the tree or not; the only pins whose drive or
\* pending drive a step changes are drain, gate and source pins of
\* Transistors.
C19_OnlyTransistorPinsTicked ==
    [][/\ \A p \in SinglePins :
             /\ pins'[p].current_drive = pins[p].current_drive
             /\ pins'[p].next_drive = pins[p].next_drive
       /\ \A p \in PinIds : pins'[p] # pins[p] => p \in TransistorPins]_vars

\* C19 witness: a settle that took a tick or more has returned; the pending
\* drive on the PMOS gate has been applied, and the Constant's pin and the
\* TestPin's pin still hold pending drives that differ from their drives.
C19_Witness ==
    /\ mode = "idle" /\ history # <<>>
    /\ history[1].op = "settle" /\ history[1].value >= 1
    /\ get_drive(Net, SimpleInput[2]) = Strong(FALSE)
    /\ pins[SimpleInput[2]].next_drive = None
    /\ get_drive(Net, PendingBench.strong_false) = Strong(FALSE)
    /\ pins[PendingBench.strong_false].next_drive = Some(Strong(TRUE))
    /\ get_drive(Net, PendingBench.test_pin) = DriveHighImpedance
    /\ pins[PendingBench.test_pin].next_drive = Some(Strong(TRUE))

\* The outcomes tick(root) can have from net n: one for each order in which
\* tick_transistors and tick_pins can meet the Transistors.
TickOutcomes(n, orders) ==
    UNION {{[net |-> b.net, changed |-> a.changed \/ b.changed] :
               b \in {tick_pins(a.net, orderB) : orderB \in orders}} :
              a \in {tick_transistors(n, orderA) : orderA \in orders}}

\* The orders in which the three pins of transistor t can be ticked.
PinOrders(t) ==
    {<<devices[t][f[1]], devices[t][f[2]], devices[t][f[3]]>> :
        f \in {g \in [1..3 -> {"drain", "gate", "source"}] :
                  \A i, j \in 1..3 : g[i] = g[j] => i = j}}

\* C20: from every state in which tick can be called, all the orders in
\* which the two traversals can meet the Transistors give one outcome: the
\* same pins, wires, hysteresis flags and the same boolean result; and in
\* the pin phase ticking the three pins of a transistor in any order gives
\* what ticking drain, gate, source gives.
C20_OrderIndependent ==
    /\ (Idle /\ phase = "none") =>
          Cardinality(TickOutcomes(Net, TransistorOrders(devices, children))) = 1
    /\ (phase = "pins" /\ fatal = "none") =>
          \A t \in Transistors :
              \A order \in PinOrders(t) :
                  PinTicks(Net, order, FALSE) = TransistorPinsTick(Net, t)

\* C20 witness: the transistor phase has run; the NorGate's drains have a
\* pending drive that will change the wire the NotGate's gates read, the
\* NotGate's drains have one computed from the value that wire still has,
\* and the traversal can meet the two gates in either order.
C20_Witness ==
    /\ phase = "pins" /\ changed
    /\ Cardinality(TransistorOrders(devices, children)) >= 2
    /\ \E t, u \in Transistors :
          /\ t # u
          /\ pins[devices[u].gate].wire = pins[devices[t].drain].wire
          /\ read(Net, devices[u].gate) = Driven(TRUE)
          /\ pins[devices[t].drain].next_drive = Some(DriveHighImpedance)
          /\ get_drive(Net, devices[t].drain) = Strong(TRUE)
          /\ pins[devices[u].drain].next_drive \in {Some(Strong(TRUE)), Some(Strong(FALSE))}

(***************************************************************************)
(* C21: traversal order                                                    *)
(***************************************************************************)
\* C21: every traversal of the device tree, by print and by either phase of
\* tick, meets the devices depth-first with the siblings in the insertion
\* (declaration) order of the children collection, so every call gives the
\* same order.
C21_InsertionOrder ==
    \A i \in DOMAIN history : history[i].value = InsertionOrder(children)

(***************************************************************************)
(* C22: what a transistor's pins drive                                     *)
(***************************************************************************)
DrainDrives == {Strong(TRUE), Strong(FALSE), DriveHighImpedance, DriveError}

\* The step is the pin phase of a tick, or a whole settle call.
PinPhaseStep == mode = "tick" /\ phase = "pins"
SettleStep == mode = "idle" /\ mode' = "idle" /\ history' # <<>>

\* C22: on the bench (constructors, Pin::connect, TestPin::set_drive, tick and
\* settle), the drain pin of a transistor drives, and has pending, only
\* Strong(b), HighImpedance or Error, never Weak; its gate and source pins
\* drive HighImpedance and never have a pending drive; a pending drive
\* appears on the drain only in the transistor phase of a tick, and the
\* drain's drive changes only in the pin phase of a tick, to that pending
\* drive, or inside a settle call.
C22_TransistorPinDrives ==
    /\ [](\A t \in Transistors :
            /\ get_drive(Net, devices[t].drain) \in DrainDrives
            /\ pins[devices[t].drain].next_drive \in {None} \cup {Some(d) : d \in DrainDrives}
            /\ get_drive(Net, devices[t].gate) = DriveHighImpedance
            /\ get_drive(Net, devices[t].source) = DriveHighImpedance
            /\ pins[devices[t].gate].next_drive = None
            /\ pins[devices[t].source].next_drive = None)
    /\ [][\A t \in Transistors :
            /\ pins'[devices[t].drain].next_drive \notin {None, pins[devices[t].drain].next_drive}
                  => Idle /\ mode' = "tick"
            /\ get_drive(Net, devices[t].drain)' # get_drive(Net, devices[t].drain)
                  => \/ /\ PinPhaseStep
                        /\ pins[devices[t].drain].next_drive
                              = Some(get_drive(Net, devices[t].drain)')
                     \/ SettleStep]_vars

\* C22 witness: the source wire is driven by a Weak value only and reads
\* Driven, and the drain has taken that level as a Strong drive in the pin
\* phase of a tick that has returned.
C22_Witness ==
    /\ Idle /\ phase = "none" /\ history = <<>>
    /\ \E t \in Transistors, b \in BOOLEAN :
          /\ get_drive(Net, devices[t].drain) = Strong(b)
          /\ read(Net, devices[t].source) = Driven(b)
          /\ \A q \in Range(get_connected_pins(Net, devices[t].source)) :
                get_drive(Net, q) \in {Weak(b), DriveHighImpedance}

(***************************************************************************)
(* C23: Constants                                                          *)
(***************************************************************************)
Constants == {c \in DeviceIds : devices[c].type = "Constant"}

\* The Constant that a constructor call has just added to net n drives
\* `drive`, has no pending drive, is alone on its wire and reads `reading`.
FreshConstant(n, drive, reading) ==
    LET output == n.devices[Len(n.devices)].output
    IN  /\ n.devices[Len(n.devices)].type = "Constant"
        /\ get_drive(n, output) = drive
        /\ n.pins[output].next_drive = None
        /\ get_connected_pins(n, output) = <<output>>
        /\ read(n, output) = reading

\* C23: Constant::new_strong(b) gives a pin that drives Strong(b) and
\* Constant::new_weak(b) one that drives Weak(b), and the unconnected pin
\* reads Driven(b); no connect, TestPin::set_drive, tick or settle changes
\* what a Constant's pin drives or gives it a pending drive.
C23_ConstantFixed ==
    /\ [](\A b \in BOOLEAN :
            /\ FreshConstant(ConstantNewStrong(Net, b), Strong(b), Driven(b))
            /\ FreshConstant(ConstantNewWeak(Net, b), Weak(b), Driven(b)))
    /\ [](\A c \in Constants :
            /\ get_drive(Net, devices[c].output) \in
                   {Strong(TRUE), Strong(FALSE), Weak(TRUE), Weak(FALSE)}
            /\ pins[devices[c].output].next_drive = None)
    /\ [][\A c \in Constants :
            get_drive(Net, devices[c].output)' = get_drive(Net, devices[c].output)]_vars

\* C23 witness: a Weak(true) Constant shares a wire with a TestPin driving
\* Strong(false) and with the transistor's source, a settle of more than one
\* tick has just returned and the Constant still drives Weak(true) while its
\* pin reads Driven(false).
C23_Witness ==
    /\ Idle /\ history # <<>> /\ history[1].value > 0
    /\ \E c \in Constants, t \in TestPins, u \in Transistors :
          /\ get_drive(Net, devices[c].output) = Weak(TRUE)
          /\ pins[devices[t].output].wire = pins[devices[c].output].wire
          /\ pins[devices[u].source].wire = pins[devices[c].output].wire
          /\ get_drive(Net, devices[t].output) = Strong(FALSE)
          /\ read(Net, devices[c].output) = Driven(FALSE)

(***************************************************************************)
(* C24: value conversions                                                  *)
(***************************************************************************)
\* Call i + 1 converts back what call i returned.
ConvertsBack(i) ==
    /\ history[i + 1].op # history[i].op
    /\ history[i + 1].arg = history[i].value

\* C24: each conversion returns a value of its target type for every value
\* of its source type; a DriveValue converted to a LogicValue and back is
\* itself when it is Strong(b), HighImpedance or Error and is Strong(b) when
\* it is Weak(b); a LogicValue converted to a DriveValue and back is itself.
C24_ConversionsRoundTrip ==
    /\ \A i \in DOMAIN history :
          IF history[i].op = "LogicValue::from"
          THEN history[i].arg \in DRIVE_VALUES /\ history[i].value \in LogicValue
          ELSE history[i].arg \in LogicValue /\ history[i].value \in DRIVE_VALUES
    /\ \A i \in 1..(Len(history) - 1) :
          ConvertsBack(i) =>
              IF history[i].op = "LogicValue::from"
              THEN history[i + 1].value =
                       (IF history[i].arg \in {Weak(TRUE), Weak(FALSE)}
                        THEN Strong(history[i].arg.value)
                        ELSE history[i].arg)
              ELSE history[i + 1].value = history[i].arg

\* C24 witness: Weak(true) was converted to a LogicValue, the result was
\* converted back and came out as Strong(true); that was converted once more
\* and gave the LogicValue of the first conversion.
C24_Witness ==
    /\ Len(history) = 3
    /\ history[1].op = "LogicValue::from" /\ history[1].arg = Weak(TRUE)
    /\ ConvertsBack(1) /\ history[2].value = Strong(TRUE)
    /\ ConvertsBack(2) /\ history[3].value = history[1].value

(***************************************************************************)
(* C25..C28: truth tables of the gates and circuits built from them        *)
(***************************************************************************)
\* settle is at its loop test with tick having returned true, and has made
\* as many ticks as a run is followed for.
SettleCutShort ==
    /\ mode = "settle" /\ phase = "returned"
    /\ SettleContinues(changed) /\ ticks >= MaxSettleTicks

\* What a logic gate shows for inputs that are not all Strong or Weak.
Clean(values) == \A i \in DOMAIN values : values[i].drive \in {"Strong", "Weak"}

\* C25: NOT gate.  Whatever DriveValue the TestPin puts on the input, in the
\* first round and in every later one, the settle call that follows returns
\* (no tick panics and the loop stops within the ticks a run is followed
\* for), and the output then reads Driven(~b) for Strong(b) and Weak(b) and
\* Error for HighImpedance and Error.
C25_NotGate ==
    /\ fatal = "none"
    /\ ~SettleCutShort
    /\ Settled =>
          read(Net, NotBench.output) =
              (IF Clean(Inputs) THEN Driven(~Inputs[1].value) ELSE LogicError)

\* C25 witness: a round put HighImpedance on the input, settle came back
\* after two ticks, the NMOS drain drives Error and the output reads Error.
C25_Witness ==
    /\ Settled
    /\ Inputs = <<DriveHighImpedance>>
    /\ history[2] = [op |-> "settle", value |-> 2]
    /\ read(Net, NotBench.output) = LogicError
    /\ get_drive(Net, NotBench.net.devices[3].drain) = DriveError

\* C26: 2-input NOR gate.  Whatever pair of DriveValues the two TestPins put
\* on the inputs, in the first round and in every later one, the settle call
\* that follows returns, and the output then reads Driven(~(a \/ b)) when
\* both inputs are Strong or Weak, of levels a and b, and Error when either
\* input is HighImpedance or Error.
C26_NorGate ==
    /\ fatal = "none"
    /\ ~SettleCutShort
    /\ Settled =>
          read(Net, NorBench.output) =
              (IF Clean(Inputs) THEN Driven(~(Inputs[1].value \/ Inputs[2].value))
               ELSE LogicError)

\* C26 witness: a round drove Weak(false) and Strong(true), its settle came
\* back after at least one counted tick and the output reads Driven(false).
C26_Witness ==
    /\ Settled
    /\ Inputs = <<Weak(FALSE), Strong(TRUE)>>
    /\ history[2].value > 0
    /\ read(Net, NorBench.output) = Driven(FALSE)

\* The latch's output and output_inverted read Driven(value), Driven(~value).
LatchShows(n, value) ==
    /\ read(n, LatchBench.output) = Driven(value)
    /\ read(n, LatchBench.output_inverted) = Driven(~value)

\* One cycle of the test run as a whole on net n with the traversal orders
\* given: each of the four set_drive calls followed by settle.
RECURSIVE LatchCycleFrom(_, _, _, _)
LatchCycleFrom(n, orderA, orderB, k) ==
    IF k > 4 THEN [net |-> n, returned |-> TRUE]
    ELSE Let(settle(TestPinSetDriveOp(n, LatchDrives[k].pin, LatchDrives[k].value),
                    orderA, orderB, 0, MaxSettleTicks + 1), LAMBDA s :
             IF s.returned THEN LatchCycleFrom(s.net, orderA, orderB, k + 1)
             ELSE [net |-> s.net, returned |-> FALSE])

\* C27: in test_sr_latch every settle returns; after the first one the latch
\* shows false; in every cycle it shows true after the settle that follows
\* set = Strong(true) and after the one that follows set = Strong(false),
\* and false after the settles that follow reset = Strong(true) and reset =
\* Strong(false); and one more cycle from the end of a cycle ends in the
\* very state it started from, so every later cycle does the same.
C27_SrLatch ==
    /\ fatal = "none"
    /\ ~SettleCutShort
    /\ (Idle /\ Len(history) = 1) => LatchShows(Net, FALSE)
    /\ (Idle /\ Len(history) > 1 /\ Len(history) % 2 = 1) =>
          LatchShows(Net, LatchStatement(Len(history) - 2) \in {1, 2})
    /\ (Idle /\ Len(history) > 1 /\ Len(history) % 8 = 1) =>
          \A orderA, orderB \in TransistorOrders(devices, children) :
              LatchCycleFrom(Net, orderA, orderB, 1) = [net |-> Net, returned |-> TRUE]

\* C27 witness: the third cycle is over: its last statements were reset =
\* Strong(true), settle, reset = Strong(false), settle, the latch shows false,
\* and in the cycle's first half it had been set by a settle of several ticks.
C27_Witness ==
    /\ Idle /\ Len(history) = 1 + 8 * LatchCycles
    /\ history[Len(history) - 3] = [op |-> "set_drive", value |-> Strong(TRUE)]
    /\ history[Len(history) - 1] = [op |-> "set_drive", value |-> Strong(FALSE)]
    /\ history[Len(history) - 6].op = "settle" /\ history[Len(history) - 6].value > 1
    /\ LatchShows(Net, FALSE)

(***************************************************************************)
(* C28: the ripple-carry adder                                             *)
(***************************************************************************)
\* A settle on the adder has been followed for MaxAdderTicks counted ticks and
\* has not returned.
AdderCutShort ==
    /\ mode = "settle" /\ phase = "returned"
    /\ SettleContinues(changed) /\ ticks >= MaxAdderTicks

\* Bit `index` of value, the least significant bit being bit 1.
Bit(value, index) == (value \div (2 ^ (index - 1))) % 2 = 1

\* C28: on a ripple-carry adder of a width w up to WidestAdder, with every pair
\* (a, b) of [0, 2^w)^2 driven bitwise as Strong values, one pair after
\* another on the same adder with a settle after each, no call panics, every
\* settle returns, and after it sum pin i reads Driven of bit i of
\* (a + b) mod 2^w and the overflow pin reads Driven(a + b >= 2^w).
C28_RippleCarryAdder ==
    /\ fatal = "none"
    /\ ~AdderCutShort
    /\ (Idle /\ Len(history) > 0 /\ Len(history) % 2 = 0) =>
          LET a == history[Len(history) - 1].value
              b == history[Len(history) - 1].value_b
          IN  /\ \A i \in 1..Width :
                    read(Net, AdderPins[Width].sum[i]) =
                        Driven(Bit((a + b) % (2 ^ Width), i))
              /\ read(Net, AdderPins[Width].overflow) = Driven(a + b >= 2 ^ Width)

\* C28 witness: on the adder of width 2 the last pair, 3 + 3, has settled
\* after all the pairs before it: the sum pins read 2 and the overflow pin
\* reads Driven(true).
C28_Witness ==
    /\ Idle /\ Width = 2
    /\ Len(history) = 2 * (2 ^ Width) * (2 ^ Width)
    /\ history[Len(history) - 1].value = 3
    /\ history[Len(history) - 1].value_b = 3
    /\ history[Len(history)].op = "settle" /\ history[Len(history)].value > 1
    /\ read(Net, AdderPins[2].sum[1]) = Driven(FALSE)
    /\ read(Net, AdderPins[2].sum[2]) = Driven(TRUE)
    /\ read(Net, AdderPins[2].overflow) = Driven(TRUE)

(***************************************************************************)
(* C29: two NOT gates in a loop                                            *)
(***************************************************************************)
\* The TestPin has been left at HighImpedance: only tick and settle have run.
Undriven == \A i \in DOMAIN history : history[i].op # "set_drive"

\* C29, as stated: the loop of two NOT gates reaches no fixed point: every
\* tick on it returns true and no settle call on it returns.
C29_NeverSettles ==
    Undriven =>
        \A i \in DOMAIN history : history[i].op = "tick" /\ history[i].value = TRUE

\* The ticks that returned true in the first k calls of an undriven run: a
\* settle that returned n made n of them.
RECURSIVE ChangingTicks(_)
ChangingTicks(k) ==
    IF k = 0 THEN 0
    ELSE ChangingTicks(k - 1) +
         (IF history[k].op = "settle" THEN history[k].value
          ELSE IF history[k].value THEN 1 ELSE 0)

\* Both wires of the loop read Driven(b) in n, and the TestPin on the loop
\* drives nothing stronger than a weak value.
Oscillating(n, b) ==
    /\ read(n, LoopBench.input) = Driven(b)
    /\ read(n, LoopBench.middle) = Driven(b)
    /\ get_drive(n, n.devices[LoopBench.test_pin].output)
          \in {DriveHighImpedance, Weak(TRUE), Weak(FALSE)}

\* C29, amended: left alone after construction the loop of two NOT gates
\* does reach a fixed point: exactly its first two ticks return true, whether
\* they are called directly or by settle (so a first settle returns 2), every
\* later tick returns false, and both wires of the loop then read Error.  It
\* reaches no fixed point once both wires read the same Driven level while
\* the TestPin drives nothing stronger than a weak value: from there every
\* tick returns true and flips both wires, so settle never returns, and no
\* call that reported a fixed point has left the loop there.
C29_LoopSettles ==
    /\ fatal = "none"
    /\ Undriven =>
          /\ ~SettleCutShort
          /\ mode = "settle" => ticks <= 2
          /\ \A i \in DOMAIN history :
                IF history[i].op = "tick"
                THEN history[i].value = (ChangingTicks(i - 1) < 2)
                ELSE history[i].value = 2 - ChangingTicks(i - 1)
          /\ (Idle /\ ChangingTicks(Len(history)) = 2) =>
                /\ read(Net, LoopBench.input) = LogicError
                /\ read(Net, LoopBench.middle) = LogicError
    /\ \A b \in BOOLEAN :
          Oscillating(Net, b) =>
              /\ phase \in {"none", "call"} =>
                    \A orderA, orderB \in TransistorOrders(devices, children) :
                        \E r \in {tick(Net, orderA, orderB)} :
                            r.changed /\ Oscillating(r.net, ~b)
              /\ phase = "returned" => changed
              /\ (Idle /\ history # <<>>) =>
                    LET last == history[Len(history)]
                    IN  /\ last.op # "settle"
                        /\ last.op = "tick" => last.value

\* C29 witness: the TestPin drove Strong(true) for one tick and then
\* Weak(false), which left both wires at Driven(false); the tick after that
\* returned true and both wires read Driven(true).
C29_Witness ==
    /\ Idle
    /\ Len(history) = 4
    /\ history[1].op = "set_drive" /\ history[1].value = Strong(TRUE)
    /\ history[2].op = "tick"
    /\ history[3].op = "set_drive" /\ history[3].value = Weak(FALSE)
    /\ history[4].op = "tick" /\ history[4].value
    /\ Oscillating(Net, TRUE)
    /\ pins[LoopBench.input].wire # pins[LoopBench.middle].wire

(***************************************************************************)
(* C30: an ambiguous gate reading that lasts one tick                      *)
(***************************************************************************)
\* The gate read Driven on the tick before, or no tick has been made yet.
LastGateDriven ==
    \/ history = <<>>
    \/ ~Ambiguous(LogicFromDrive(history[Len(history)].gate))

\* C30: a tick on which the gate reads Driven clears the hysteresis flag, so
\* the flag is clear whenever the last tick read a Driven gate; a tick on
\* which the gate reads HighImpedance or Error, after a tick on which it read
\* Driven, leaves no pending drive on the drain, and the drain keeps the
\* drive it had through the whole call.  A gate that alternates between
\* ambiguous and Driven readings thus never gets Error from the gate rule.
C30_TransientInvisible ==
    /\ []((mode = "idle" /\ LastGateDriven) => ~UnderTest.error_hysteresis)
    /\ [][(TransistorTickStep /\ ~Ambiguous(read(Net, UnderTest.gate))) =>
            ~devices'[1].error_hysteresis]_vars
    /\ [][(TransistorTickStep /\ Ambiguous(read(Net, UnderTest.gate)) /\ LastGateDriven) =>
            /\ pins'[UnderTest.drain].next_drive = None
            /\ pins'[UnderTest.drain].current_drive = pins[UnderTest.drain].current_drive]_vars
    /\ [][(/\ phase = "ticked" /\ phase' = "none"
           /\ Ambiguous(read(Net, UnderTest.gate)) /\ LastGateDriven) =>
            get_drive(Net', UnderTest.drain) = get_drive(Net, UnderTest.drain)]_vars

\* C30 witness: the gate read ambiguous, Driven at the activation level and
\* ambiguous again on three calls in a row; the drain still drives the
\* Strong value it conducted on the second call.
C30_Witness ==
    /\ mode = "idle" /\ Len(history) = 3
    /\ Ambiguous(LogicFromDrive(history[1].gate))
    /\ history[2].gate = Strong(UnderTest.activation)
    /\ Ambiguous(LogicFromDrive(history[3].gate))
    /\ UnderTest.error_hysteresis
    /\ get_drive(Net, UnderTest.drain) \in {Strong(TRUE), Strong(FALSE)}

(***************************************************************************)
(* C31: a connect takes effect at once                                     *)
(***************************************************************************)
\* C31: a connect of two pins on two wires needs no tick: in the state it
\* leaves, the wire's counters are the pointwise sums of the counters the two
\* wires had, its value is what those sums resolve to, both pins read it, and
\* every pin has the current drive and the pending drive it had; a
\* Weak(true) pin joined with a Strong(false) pin reads Driven(false), and a
\* Strong(true) pin joined with a Strong(false) pin reads Error.
C31_ConnectImmediate ==
    [][\A pin_1, pin_2 \in PinIds :
         ConnectStep(pin_1, pin_2) =>
             LET joined == wires'[pins'[pin_1].wire]
                 sums == AccAdd(wires[pins[pin_1].wire].drive_value_accumulator,
                                wires[pins[pin_2].wire].drive_value_accumulator)
             IN  /\ joined.drive_value_accumulator = sums
                 /\ joined.value = get_value(sums)
                 /\ read(Net', pin_1) = get_value(sums)
                 /\ read(Net', pin_2) = get_value(sums)
                 /\ \A p \in PinIds :
                       /\ pins'[p].current_drive = pins[p].current_drive
                       /\ pins'[p].next_drive = pins[p].next_drive
                 /\ ({get_drive(Net, pin_1), get_drive(Net, pin_2)}
                        = {Weak(TRUE), Strong(FALSE)}) => read(Net', pin_1) = Driven(FALSE)
                 /\ ({get_drive(Net, pin_1), get_drive(Net, pin_2)}
                        = {Strong(TRUE), Strong(FALSE)}) => read(Net', pin_1) = LogicError]_vars

\* C31 witness: a pin driving Weak(true), with a drive pending, and a pin
\* driving Strong(false) have been connected, and both read Driven(false).
C31_Witness ==
    /\ fatal = "none"
    /\ pins[1].wire = pins[2].wire
    /\ get_drive(Net, 1) = Weak(TRUE) /\ get_drive(Net, 2) = Strong(FALSE)
    /\ pins[1].next_drive = Some(Strong(TRUE))
    /\ read(Net, 1) = Driven(FALSE) /\ read(Net, 2) = Driven(FALSE)
    /\ wires[pins[1].wire].drive_value_accumulator
         = [AccNew EXCEPT !.weak_true = 1, !.strong_false = 1]

(***************************************************************************)
(* C32: tick alone never sets a drive twice                                *)
(***************************************************************************)
\* No pin of a transistor of net n has a pending drive.
NoTransistorPending(n) ==
    \A t \in DOMAIN n.devices :
        n.devices[t].type = "Transistor" =>
            /\ n.pins[n.devices[t].drain].next_drive = None
            /\ n.pins[n.devices[t].gate].next_drive = None
            /\ n.pins[n.devices[t].source].next_drive = None

\* C32: on the bench, whatever connect, TestPin::set_drive, tick and settle
\* calls were made, no call has panicked, no pin of a transistor has a
\* pending drive between two calls, and a tick started there, in whichever
\* order its traversals go, does not panic and leaves no pin of a transistor
\* with a pending drive; between the two phases of a tick only a drain can
\* have one.
C32_TickNeverDoubleSets ==
    /\ fatal = "none"
    /\ mode = "idle" =>
          /\ NoTransistorPending(Net)
          /\ \A orderA, orderB \in TransistorOrders(devices, children) :
                \E r \in {tick(Net, orderA, orderB)} :
                    r.net.fatal = "none" /\ NoTransistorPending(r.net)
    /\ \A t \in Transistors :
          pins[devices[t].gate].next_drive = None /\ pins[devices[t].source].next_drive = None

\* C32 witness: a settle of two ticks or more has returned on a transistor
\* whose drain is connected to its own gate and now drives Error, and nothing
\* is pending.
C32_Witness ==
    /\ Idle /\ history # <<>> /\ history[1].value >= 2
    /\ NoTransistorPending(Net)
    /\ \E t \in Transistors :
          /\ pins[devices[t].drain].wire = pins[devices[t].gate].wire
          /\ get_drive(Net, devices[t].drain) = DriveError

(***************************************************************************)
(* C33: a tick that returns false                                          *)
(***************************************************************************)
\* Nets n and m show the same: every pin has the same current drive and is on
\* the same wire, and every wire has the same value.
SameVisible(n, m) ==
    /\ DOMAIN n.pins = DOMAIN m.pins /\ DOMAIN n.wires = DOMAIN m.wires
    /\ \A p \in DOMAIN n.pins :
          /\ n.pins[p].current_drive = m.pins[p].current_drive
          /\ n.pins[p].wire = m.pins[p].wire
    /\ \A w \in DOMAIN n.wires : n.wires[w].value = m.wires[w].value

\* C33: a tick that returns false, from any state between two calls on the
\* buffer gate and in whichever order its traversals go, leaves every pin's
\* current drive and every wire's value as they were and no pin of a
\* transistor with a pending drive, and every tick after it returns false
\* as well; a tick that has returned false has left the gate in such a state.
C33_FalseTickIsFixedPoint ==
    /\ Idle =>
          \A r \in {tick(Net, orderA, orderB) :
                        orderA, orderB \in TransistorOrders(devices, children)} :
                  ~r.changed =>
                      /\ SameVisible(r.net, Net)
                      /\ NoTransistorPending(r.net)
                      /\ \A orderC, orderD \in TransistorOrders(devices, children) :
                            \E again \in {tick(r.net, orderC, orderD)} :
                                ~again.changed /\ SameVisible(again.net, Net)
    /\ (Idle /\ history # <<>> /\ history[Len(history)].op = "tick") =>
          (~history[Len(history)].value =>
              \A orderA, orderB \in TransistorOrders(devices, children) :
                  ~tick(Net, orderA, orderB).changed)

\* C33 witness: the buffer's input was driven, a settle of one tick or more
\* returned, and the tick after it returned false.
C33_Witness ==
    /\ Idle /\ Len(history) = 3
    /\ history[1].op = "set_drive"
    /\ history[2].op = "settle" /\ history[2].value >= 1
    /\ history[3].op = "tick" /\ ~history[3].value
    /\ \A orderA, orderB \in TransistorOrders(devices, children) :
          ~tick(Net, orderA, orderB).changed

(***************************************************************************)
(* C34: settle on a single transistor                                      *)
(***************************************************************************)
\* C34: on a single transistor of either polarity whose gate and source
\* pins hold any two drives, whatever the drain drives and whatever the
\* hysteresis flag is, a settle called between two calls returns, leaves the
\* gate and source wires at their values, and returns 2 at most; 1 at most
\* when the gate reads Driven; and exactly 2 when the gate reads
\* HighImpedance or Error and the transistor is as new (flag clear, drain at
\* HighImpedance).  A settle call that has returned has returned 2 at most.
C34_TransistorSettles ==
    /\ Idle =>
          \A orderA, orderB \in TransistorOrders(devices, children) :
              \E s \in {settle(Net, orderA, orderB, 0, MaxSettleTicks)} :
                  /\ s.returned
                  /\ read(s.net, UnderTest.gate) = read(Net, UnderTest.gate)
                  /\ read(s.net, UnderTest.source) = read(Net, UnderTest.source)
                  /\ s.ticks <= 2
                  /\ ~Ambiguous(read(Net, UnderTest.gate)) => s.ticks <= 1
                  /\ (/\ Ambiguous(read(Net, UnderTest.gate))
                      /\ ~UnderTest.error_hysteresis
                      /\ get_drive(Net, UnderTest.drain) = DriveHighImpedance)
                        => s.ticks = 2
    /\ history # <<>> => history[1].value <= 2

\* C34 witness: a settle has returned 2 on a PMOS whose gate pin holds
\* Error and whose source pin holds Strong(false); the drain now drives
\* Error.
C34_Witness ==
    /\ Idle /\ history # <<>> /\ history[1].value = 2
    /\ ~UnderTest.activation
    /\ get_drive(Net, UnderTest.gate) = DriveError
    /\ get_drive(Net, UnderTest.source) = Strong(FALSE)
    /\ get_drive(Net, UnderTest.drain) = DriveError

(***************************************************************************)
(* C35: Pin::connect is symmetric and insensitive to the order of calls    *)
(***************************************************************************)
\* What a net's wires are, whatever the order of their pin lists and
\* whichever Rc survived: for every wire, the pins attached to it, the pins
\* it lists and how many it lists, its accumulator and its value.
Partition(n) ==
    {[attached |-> {p \in DOMAIN n.pins : n.pins[p].wire = w},
      listed |-> Range(n.wires[w].pins),
      count |-> Len(n.wires[w].pins),
      drive_value_accumulator |-> n.wires[w].drive_value_accumulator,
      value |-> n.wires[w].value] : w \in DOMAIN n.wires}

\* The net after connect call c.
After(n, c) == PinConnect(n, c[1], c[2])

\* Calls in the order of their pin numbers, to take each set of calls once.
Before(c, d) == c[1] < d[1] \/ (c[1] = d[1] /\ c[2] < d[2])

\* No connect call has joined two pins yet.
Unconnected(n) == \A p, q \in DOMAIN n.pins : p # q => n.pins[p].wire # n.pins[q].wire

\* connect calls on two different pins
ConnectCalls == {c \in PinIds \X PinIds : c[1] # c[2]}

\* C35: from every state of pins created and connected in any order,
\* connect(p, q) and connect(q, p) give the same partition of the pins into
\* wires, with the same accumulators and values, and connect(p, p) changes
\* nothing; from pins not connected yet, three different connect calls made
\* in any of their six orders give the same partition, accumulators and values; and
\* on every wire the pins listed are the pins attached, each once.
C35_ConnectOrderInsensitive ==
    [](/\ \A pin_1, pin_2 \in PinIds :
             /\ pin_1 < pin_2 =>
                   Partition(PinConnect(Net, pin_1, pin_2))
                       = Partition(PinConnect(Net, pin_2, pin_1))
             /\ pin_1 = pin_2 => PinConnect(Net, pin_1, pin_2) = Net
       /\ Unconnected(Net) =>
             \A c1, c2, c3 \in ConnectCalls :
                 (Before(c1, c2) /\ Before(c2, c3)) =>
                     \E n1 \in {After(Net, c1)}, n2 \in {After(Net, c2)}, n3 \in {After(Net, c3)} :
                         \E first \in {Partition(After(After(n1, c2), c3))} :
                             /\ Partition(After(After(n1, c3), c2)) = first
                             /\ Partition(After(After(n2, c1), c3)) = first
                             /\ Partition(After(After(n2, c3), c1)) = first
                             /\ Partition(After(After(n3, c1), c2)) = first
                             /\ Partition(After(After(n3, c2), c1)) = first
       /\ \A part \in Partition(Net) :
             part.attached = part.listed /\ part.count = Cardinality(part.listed))

\* C35 witness: three pins driven Strong(true), Weak(false) and
\* HighImpedance are on one wire, which lists them in an order other than
\* that of their creation, counts one drive of each kind and reads
\* Driven(true).
C35_Witness ==
    /\ Len(pins) = 3
    /\ get_drive(Net, 1) = Strong(TRUE) /\ get_drive(Net, 2) = Weak(FALSE)
    /\ get_drive(Net, 3) = DriveHighImpedance
    /\ get_connected_pins(Net, 1) = <<2, 3, 1>>
    /\ Partition(Net) =
          {[attached |-> {1, 2, 3}, listed |-> {1, 2, 3}, count |-> 3,
            drive_value_accumulator |-> [AccNew EXCEPT !.strong_true = 1, !.weak_false = 1],
            value |-> Driven(TRUE)]}

(***************************************************************************)
(* C36: XOR gate                                                           *)
(***************************************************************************)
\* C36: XOR gate.  Whatever pair of DriveValues the two TestPins put on the
\* inputs a and b, in the first round and in every later one, no tick
\* panics, the settle call that follows returns, and the output then reads
\* Driven(a xor b) when both inputs are Strong or Weak, of levels a and b,
\* and Error when either input is HighImpedance or Error.
C36_XorGate ==
    /\ fatal = "none"
    /\ ~AdderCutShort
    /\ Settled =>
          read(Net, XorBench.output) =
              (IF Clean(Inputs) THEN Driven(Inputs[1].value # Inputs[2].value)
               ELSE LogicError)

\* C36 witness: a round drove Weak(true) and Strong(false), its settle came
\* back after at least one counted tick and the output reads Driven(true).
C36_Witness ==
    /\ Settled
    /\ Inputs = <<Weak(TRUE), Strong(FALSE)>>
    /\ history[2].value > 0
    /\ read(Net, XorBench.output) = Driven(TRUE)

(***************************************************************************)
(* C37: tri-state buffer                                                   *)
(***************************************************************************)
\* C37: tri-state buffer.  Whatever pair of DriveValues the two TestPins put
\* on enable and input, in the first round and in every later one, no tick
\* panics, the settle call that follows returns, and the output then reads
\* Driven(b) when enable is Strong or Weak false and the input is Strong or
\* Weak of level b, HighImpedance when enable is Strong or Weak true and the
\* input is Strong or Weak, and Error when enable or input is HighImpedance
\* or Error.
C37_TriStateBuffer ==
    /\ fatal = "none"
    /\ ~AdderCutShort
    /\ Settled =>
          read(Net, TriStateBench.output) =
              (IF ~Clean(Inputs) THEN LogicError
               ELSE IF Inputs[1].value THEN LogicHighImpedance
               ELSE Driven(Inputs[2].value))

\* C37 witness: a round drove enable Weak(false) and the input Strong(true),
\* its settle came back after at least one counted tick and the output
\* reads Driven(true).
C37_Witness ==
    /\ Settled
    /\ Inputs = <<Weak(FALSE), Strong(TRUE)>>
    /\ history[2].value > 0
    /\ read(Net, TriStateBench.output) = Driven(TRUE)

(***************************************************************************)
(* C38: update with a `before` value that is not counted                   *)
(***************************************************************************)
\* `before` is not HighImpedance and the accumulator counts no such drive.
NotCounted(before) == before # DriveHighImpedance /\ acc[CounterOf(before)] = 0

\* C38: on an accumulator that update and add calls have brought to any
\* counters, update(before, after) with a `before` other than HighImpedance
\* whose counter is zero can always be called and is fatal: the program
\* halts with every counter as it was (nothing wraps or saturates) and no
\* call follows; update(HighImpedance, HighImpedance) is not fatal and
\* changes no counter and not the value.
C38_IllegalUpdateFatal ==
    /\ [](fatal = "none" =>
             \A before, after \in DRIVE_VALUES :
                 NotCounted(before) => ENABLED AccUpdateCall(before, after))
    /\ [][/\ fatal = "none"
          /\ \A before, after \in DRIVE_VALUES :
                AccUpdateCall(before, after) =>
                    /\ NotCounted(before) => (fatal' # "none" /\ acc' = acc)
                    /\ (before = DriveHighImpedance /\ after = DriveHighImpedance) =>
                          (fatal' = "none" /\ acc' = acc /\ accValue' = accValue)]_vars

\* C38 witness: an accumulator that counts one Strong(true) and one
\* Weak(false) drive, and no Error drive, has halted in an update call.
C38_Witness ==
    /\ fatal # "none"
    /\ acc = [AccNew EXCEPT !.strong_true = 1, !.weak_false = 1]
    /\ accValue = Driven(TRUE)

(***************************************************************************)
(* C39: Wire::set_initial_pin                                              *)
(***************************************************************************)
\* C39: set_initial_pin on a wire that already has a pin is fatal and
\* changes nothing; on a new wire without pins it is not fatal, the wire
\* then lists that pin alone, counts its drive and has the value the drive
\* resolves to; nothing else is fatal here; and every newly created pin is
\* alone on its wire and reads the LogicValue conversion of its initial
\* drive.
C39_SetInitialPin ==
    /\ [](\A p \in PinIds :
             /\ read(Net, p) = LogicFromDrive(get_drive(Net, p))
             /\ get_connected_pins(Net, p) = <<p>>)
    /\ [][/\ \A w \in DOMAIN wires, pin \in PinIds :
                SetInitialPin(w, pin) =>
                    IF wires[w].pins # <<>>
                    THEN /\ fatal' = "Wire is already associated with a Pin."
                         /\ wires' = wires /\ pins' = pins
                    ELSE /\ fatal' = "none"
                         /\ pins' = pins
                         /\ wires' = [wires EXCEPT ![w] =
                                [value |-> LogicFromDrive(get_drive(Net, pin)),
                                 pins |-> <<pin>>,
                                 drive_value_accumulator |->
                                     AccUpdate(AccNew, DriveHighImpedance,
                                               get_drive(Net, pin))]]
          /\ fatal' # "none" =>
                \E w \in DOMAIN wires, pin \in PinIds :
                    SetInitialPin(w, pin) /\ wires[w].pins # <<>>]_vars

\* C39 witness: the wire created on its own took the pin driving
\* Weak(false) as its initial pin and has the value Driven(false), and a
\* second set_initial_pin call has halted the program.
C39_Witness ==
    /\ fatal = "Wire is already associated with a Pin."
    /\ 0 \in DOMAIN wires
    /\ wires[0].pins = <<1>>
    /\ get_drive(Net, 1) = Weak(FALSE)
    /\ wires[0].value = Driven(FALSE)
    /\ read(Net, 1) = Driven(FALSE)

====
